---------------------------- MODULE Spec2Model ----------------------------
(***************************************************************************)
(* A model of the black-hole-astrophysics course package:                  *)
(*                                                                         *)
(*   - notebooks/classical-orbits.ipynb: the fixed-step RK4 integration of *)
(*     the orbital phase (rhs, rk4, the time grid and the simulation       *)
(*     loop);                                                              *)
(*   - notebooks/gamma-ray-bursts.ipynb: read_txt_from_url, the catalogue  *)
(*     reader.                                                             *)
(*                                                                         *)
(* Python floats are modelled as binary floating-point numbers with a      *)
(* MantBits-bit significand and round-to-nearest-even after every          *)
(* operation (the machine format has 53 bits; the exponent range is not    *)
(* bounded, so overflow and underflow are not modelled).                   *)
(***************************************************************************)
EXTENDS Integers, Sequences, FiniteSets, TLC

----------------------------------------------------------------------------
(* Floating point: a number is [s, m, e], of value s * m * 2^e, with s the *)
(* sign (1 or -1), and m = 0 (zero, with s = 1, e = 0) or                  *)
(* 2^(MantBits-1) <= m < 2^MantBits.                                       *)

MantBits == 14

RECURSIVE BitLen(_)
BitLen(n) == IF n = 0 THEN 0 ELSE 1 + BitLen(n \div 2)

FZero == [s |-> 1, m |-> 0, e |-> 0]

\* s * n * 2^e rounded to the nearest number of the format, ties to even
Round(s, n, e) ==
    IF n = 0 THEN FZero
    ELSE LET k == BitLen(n) - MantBits IN
         IF k <= 0 THEN [s |-> s, m |-> n * 2^(-k), e |-> e + k]
         ELSE LET q    == n \div 2^k
                  r    == n % 2^k
                  half == 2^(k-1)
                  q1   == IF r > half \/ (r = half /\ q % 2 = 1)
                          THEN q + 1 ELSE q
              IN  IF q1 = 2^MantBits
                  THEN [s |-> s, m |-> 2^(MantBits-1), e |-> e + k + 1]
                  ELSE [s |-> s, m |-> q1, e |-> e + k]

\* the same for a value slightly above n * 2^e when inexact (n has more than
\* MantBits bits)
RoundSticky(s, n, e, inexact) ==
    Round(s, 2 * n + (IF inexact THEN 1 ELSE 0), e - 1)

\* an int converted to float
F(n) == Round(IF n < 0 THEN -1 ELSE 1, IF n < 0 THEN -n ELSE n, 0)

\* a decimal literal, given by the first bits n * 2^e of its binary expansion
Lit(n, e) == Round(1, n, e)

FNeg(a) == IF a.m = 0 THEN a ELSE [a EXCEPT !.s = -a.s]

FMul(a, b) == Round(a.s * b.s, a.m * b.m, a.e + b.e)

\* a / b for b # 0: the quotient to MantBits + 1 bits or more, and whether
\* it is inexact
FDiv(a, b) ==
    LET num == a.m * 2^(MantBits + 1)
    IN  IF a.m = 0 THEN FZero
        ELSE RoundSticky(a.s * b.s, num \div b.m,
                         a.e - b.e - (MantBits + 1), num % b.m # 0)

FAdd(a, b) ==
    IF a.m = 0 THEN b
    ELSE IF b.m = 0 THEN a
    ELSE LET hi == IF a.e >= b.e THEN a ELSE b
             lo == IF a.e >= b.e THEN b ELSE a
             d  == hi.e - lo.e
         IN  IF d > MantBits + 2 THEN hi
             ELSE IF d <= 3
             THEN LET sum == hi.s * hi.m * 2^d + lo.s * lo.m
                  IN  Round(IF sum < 0 THEN -1 ELSE 1,
                            IF sum < 0 THEN -sum ELSE sum, lo.e)
             \* the smaller operand is shifted to three bits below the
             \* larger one's last bit; what is shifted out makes the sum
             \* inexact
             ELSE LET h    == hi.m * 8
                      l    == lo.m \div 2^(d - 3)
                      lost == lo.m % 2^(d - 3) # 0
                      sum  == IF hi.s = lo.s THEN h + l
                              ELSE IF lost THEN h - l - 1 ELSE h - l
                  IN  RoundSticky(hi.s, sum, hi.e - 3, lost)

FSub(a, b) == FAdd(a, FNeg(b))

\* x ** 2 and x ** 3, the powers the notebook takes.  The cube is the
\* square times the mantissa, in two halves: the upper MantBits + 1 bits or
\* more of the product, and whether the rest is zero
FPow(a, n) ==
    IF n = 2 THEN Round(1, a.m * a.m, 2 * a.e)
    ELSE LET sq   == a.m * a.m
             sh   == sq \div 2^MantBits
             sl   == sq % 2^MantBits
             low  == sl * a.m
             top  == sh * a.m + low \div 2^MantBits
         IN  IF a.m = 0 THEN FZero
             ELSE RoundSticky(a.s, top, 3 * a.e + MantBits,
                              low % 2^MantBits # 0)

RECURSIVE ISqrtIn(_, _, _)
ISqrtIn(n, lo, hi) ==
    IF hi - lo <= 1 THEN lo
    ELSE LET mid == (lo + hi) \div 2
         IN  IF mid * mid <= n THEN ISqrtIn(n, mid, hi)
             ELSE ISqrtIn(n, lo, mid)

\* numpy.sqrt of a >= 0: the integer square root r of the mantissa scaled
\* to 2 MantBits - 1 or 2 MantBits bits has MantBits bits; the root is
\* above r + 1/2 exactly when n - r^2 > r
FSqrt(a) ==
    LET k == IF (a.e - MantBits) % 2 = 0 THEN MantBits ELSE MantBits - 1
        n == a.m * 2^k
        r == ISqrtIn(n, 0, 2^MantBits)
    IN  IF a.m = 0 THEN FZero
        ELSE Round(1, IF n - r * r > r THEN r + 1 ELSE r, (a.e - k) \div 2)

FLe(a, b) == LET d == FSub(b, a) IN d.s = 1
FLt(a, b) == LET d == FSub(b, a) IN d.s = 1 /\ d.m # 0

\* the least int >= a
FCeil(a) ==
    IF a.m = 0 THEN 0
    ELSE IF a.e >= 0 THEN a.s * a.m * 2^(a.e)
    ELSE LET k == -a.e IN
         IF k > MantBits THEN (IF a.s = 1 THEN 1 ELSE 0)
         ELSE IF a.s = 1 THEN (a.m + 2^k - 1) \div 2^k
         ELSE -(a.m \div 2^k)

----------------------------------------------------------------------------
(* numpy.cos, computed in fixed point with CosScale units per radian:      *)
(* reduction of the argument to [0, pi/2], then the Taylor polynomial to   *)
(* the 8th power, rounded to the format.  cos is even, so the sign of the  *)
(* argument is dropped; arguments are below 2^18 in fixed point.           *)

CosBits  == 12
CosScale == 2^CosBits
\* pi in CosScale units (pi * 2^18 = 823550)
PiFix    == (823550 + 2^(17 - CosBits)) \div 2^(18 - CosBits)

\* |a| in CosScale units, rounded half up
ToFix(a) ==
    LET k == a.e + CosBits IN
    IF a.m = 0 THEN 0
    ELSE IF k >= 0 THEN a.m * 2^k
    ELSE IF -k > MantBits + 1 THEN 0
    ELSE (a.m + 2^(-k-1)) \div 2^(-k)

CosPoly(x) ==
    LET x2 == (x * x) \div CosScale
        x4 == (x2 * x2) \div CosScale
        x6 == (x4 * x2) \div CosScale
        x8 == (x4 * x4) \div CosScale
    IN  CosScale - x2 \div 2 + x4 \div 24 - x6 \div 720 + x8 \div 40320

FCos(a) ==
    LET r  == ToFix(a) % (2 * PiFix)
        r1 == IF r > PiFix THEN 2 * PiFix - r ELSE r
        c  == IF 2 * r1 > PiFix THEN -CosPoly(PiFix - r1) ELSE CosPoly(r1)
    IN  Round(IF c < 0 THEN -1 ELSE 1, IF c < 0 THEN -c ELSE c, -CosBits)

----------------------------------------------------------------------------
(* classical-orbits.ipynb                                                  *)

VARIABLES
    ECC,      \* orbital eccentricity
    M2,       \* secondary mass
    M,        \* total mass
    MU,       \* reduced mass
    L,        \* angular momentum
    RL,       \* semi-latus rectum
    E,        \* total energy
    T,        \* orbital period
    dt,       \* step size
    tsize,    \* t.size, the number of time samples
    phi,      \* the phase series (a Python list)
    i,        \* the loop variable: the number of iterations begun so far
    frame,    \* the arguments, locals and return value of the last rk4 call
    r,           \* the radial position series
    rdot,        \* time derivative of r
    energy,      \* the energy recomputed at each sample
    error,       \* its relative error against E
    phidot,      \* time derivative of phi
    angmomentum, \* the angular momentum recomputed at each sample
    Lerror,      \* its relative error against L
    pcO       \* the notebook's position: "loop", "done" (the simulation cell
              \* has ended), "radial", "energy", "end" (the cell of that name
              \* has ended), "raised"; "rk4", "rk4ret"

diagVars == <<r, rdot, energy, error, phidot, angmomentum, Lerror>>
orbitVars ==
    <<ECC, M2, M, MU, L, RL, E, T, dt, tsize, phi, i, frame, diagVars, pcO>>

(* gamma-ray-bursts.ipynb: the state of a read_txt_from_url call          *)

VARIABLES
    cell,     \* the catalogue notebook's fetch being run: 1..4 in a run of
              \* the notebook, 0 for a call outside it
    table,    \* the lines of the file behind the URL
    columns,  \* the argument columns, a tuple of ints
    start,    \* the argument start
    step,     \* the argument step
    conn,     \* the number of open connections
    opens,    \* the number of urlopen calls made
    lines,    \* the local variable lines
    pending,  \* the exception raised in the with block, or "none"
    outcome,  \* how the call ended: [kind, exc, data]
    pcR       \* the call's position: "urlopen", "readlines", "exit",
              \* "parse", "done"; in the FITS download "fits_urlopen",
              \* "fits_open", "fits_exit"

readerVars ==
    <<cell, table, columns, start, step, conn, opens, lines, pending, outcome,
      pcR>>

\* the reader, when the notebook run is the orbit notebook's
ReaderIdle ==
    /\ cell = 0
    /\ table = << >>
    /\ columns = << >>
    /\ start = 1
    /\ step = 1
    /\ conn = 0
    /\ opens = 0
    /\ lines = << >>
    /\ pending = "none"
    /\ outcome = [kind |-> "none", exc |-> "none", data |-> << >>]
    /\ pcR = "idle"

(* conda/bh-conda-env and conda/bh-set-variables: a run of the command      *)

VARIABLES
    argv1,         \* $1, the first argument ("" when there is none)
    pcS,           \* the position in bh-conda-env
    pcP,           \* the position in the staging script bh-set-variables
    exitStatus,    \* the exit status of bh-conda-env, -1 while it runs
    log,           \* what the run has printed and the commands it has run,
                   \* in order: [kind, text, ok]
    env,           \* the shell's value of each of the four variables
    CONDA_PREFIX,  \* the prefix of the active conda environment, or ""
    envExists,     \* whether the environment black-hole-3.7 exists
    fs             \* the files under etc/ of each prefix

scriptVars ==
    <<argv1, pcS, pcP, exitStatus, log, env, CONDA_PREFIX, envExists, fs>>

\* the prefix of black-hole-3.7, and that of the python found when no conda
\* environment is active
EnvPrefix == "envs/black-hole-3.7"
SystemPrefix == "/usr"
Prefixes == {EnvPrefix, SystemPrefix}

VarNames == <<"GWPY_RCPARAMS", "GWPY_USETEX", "MATPLOTLIBRC", "XDG_DATA_HOME">>
VarSet == { VarNames[k] : k \in 1..Len(VarNames) }

Unset == [set |-> FALSE, val |-> << >>]
Value(v) == [set |-> TRUE, val |-> v]
NoneSet == [n \in VarSet |-> Unset]

NoFile == [exists |-> FALSE, text |-> << >>]
File(text) == [exists |-> TRUE, text |-> text]

\* a prefix in which nothing has been staged
Unstaged ==
    [activate_d |-> FALSE, deactivate_d |-> FALSE, data |-> FALSE,
     activate_sh |-> NoFile, deactivate_sh |-> NoFile,
     matplotlibrc |-> FALSE, fonts |-> FALSE]

\* the command, when the notebook run is one of the notebooks'
ScriptIdle ==
    /\ argv1 = ""
    /\ pcS = "idle"
    /\ pcP = "idle"
    /\ exitStatus = -1
    /\ log = << >>
    /\ env = NoneSet
    /\ CONDA_PREFIX = ""
    /\ envExists = FALSE
    /\ fs = [p \in Prefixes |-> Unstaged]

\* global variables
PI   == Lit(823550, -18)     \* numpy.pi
G    == Lit(601148, -53)     \* 6.67408e-11
MSUN == Lit(822631, 81)      \* 1.989e30
M1   == MSUN

\* the parameter sets the notebook is run with: the eccentricities 0, 0.1,
\* 0.21 (Mercury), 0.5 and 0.9, Mercury's mass 3.285e23, and the angular
\* momenta 1e38, 2e38, 3e38, 4e38, 5e38, 6e38, 7e38, 8e38, 8.8e38 and 9e38
\* (Mercury: 9e38)
EccValues == {FZero, Lit(838861, -23), Lit(880804, -22), Lit(524288, -20),
              Lit(943718, -20)}
M2Values  == {Lit(569857, 59)}
LValues   == {Lit(616298, 107), Lit(616298, 108), Lit(924446, 108),
              Lit(616298, 109), Lit(770372, 109), Lit(924446, 109),
              Lit(539260, 110), Lit(616298, 110), Lit(677927, 110),
              Lit(693335, 110)}

ReducedMass(m1, m2) == FDiv(FMul(m1, m2), FAdd(m1, m2))
TotalMass(m1, m2)   == FAdd(m1, m2)
SemiLatusRectum(l, m, mu) == FDiv(FPow(l, 2), FMul(FMul(G, m), FPow(mu, 2)))
\* E = (MU**3 / 2) * (G*M / L)**2 * (ECC**2 - 1)
TotalEnergy(l, m, mu, ecc) ==
    FMul(FMul(FDiv(FPow(mu, 3), F(2)), FPow(FDiv(FMul(G, m), l), 2)),
         FSub(FPow(ecc, 2), F(1)))

\* before the radial position cell has run, none of the series exists
NoDiagnostics ==
    /\ r = << >> /\ rdot = << >> /\ energy = << >> /\ error = << >>
    /\ phidot = << >> /\ angmomentum = << >> /\ Lerror = << >>

\* Python's seq[k] for an int k: negative k counts from the end
PyInRange(seq, k) == -Len(seq) <= k /\ k < Len(seq)
PyIndex(seq, k)   == IF k < 0 THEN seq[Len(seq) + k + 1] ELSE seq[k + 1]

\* rhs(y): L * (1 + ECC * numpy.cos(y))**2 / (MU * RL**2)
rhs(y) ==
    FDiv(FMul(L, FPow(FAdd(F(1), FMul(ECC, FCos(y))), 2)),
         FMul(MU, FPow(RL, 2)))

\* rk4 with the third stage taken at y + k1/2
rk4StaleStage(y, h) ==
    LET k1 == FMul(h, rhs(y))
        k2 == FMul(h, rhs(FAdd(y, FDiv(k1, F(2)))))
        k3 == FMul(h, rhs(FAdd(y, FDiv(k1, F(2)))))
        k4 == FMul(h, rhs(FAdd(y, k3)))
    IN  [called |-> TRUE, y |-> y, h |-> h,
         k1 |-> k1, k2 |-> k2, k3 |-> k3, k4 |-> k4,
         ret |-> FAdd(y, FMul(FDiv(F(1), F(6)),
                     FAdd(FAdd(FAdd(k1, FMul(F(2), k2)), FMul(F(2), k3)),
                          k4)))]

\* rk4 with the weighted sum subtracted
rk4Subtracts(y, h) ==
    LET k1 == FMul(h, rhs(y))
        k2 == FMul(h, rhs(FAdd(y, FDiv(k1, F(2)))))
        k3 == FMul(h, rhs(FAdd(y, FDiv(k2, F(2)))))
        k4 == FMul(h, rhs(FAdd(y, k3)))
    IN  [called |-> TRUE, y |-> y, h |-> h,
         k1 |-> k1, k2 |-> k2, k3 |-> k3, k4 |-> k4,
         ret |-> FSub(y, FMul(FDiv(F(1), F(6)),
                     FAdd(FAdd(FAdd(k1, FMul(F(2), k2)), FMul(F(2), k3)),
                          k4)))]

\* rk4(y, h): its locals and its return value
rk4(y, h) ==
    LET k1 == FMul(h, rhs(y))
        k2 == FMul(h, rhs(FAdd(y, FDiv(k1, F(2)))))
        k3 == FMul(h, rhs(FAdd(y, FDiv(k2, F(2)))))
        k4 == FMul(h, rhs(FAdd(y, k3)))
    IN  [called |-> TRUE, y |-> y, h |-> h,
         k1 |-> k1, k2 |-> k2, k3 |-> k3, k4 |-> k4,
         ret |-> FAdd(y, FMul(FDiv(F(1), F(6)),
                     FAdd(FAdd(FAdd(k1, FMul(F(2), k2)), FMul(F(2), k3)),
                          k4)))]

\* no rk4 call yet; y and h are the arguments of the call to come
NoFrame(y, h) ==
    [called |-> FALSE, y |-> y, h |-> h, k1 |-> FZero, k2 |-> FZero,
     k3 |-> FZero, k4 |-> FZero, ret |-> FZero]

\* a semi-major axis with the sign of ECC**2 flipped
SemiMajorAxisPlus(rl, ecc) == FDiv(rl, FAdd(F(1), FPow(ecc, 2)))

\* set initial conditions
SemiMajorAxis(rl, ecc) == FDiv(rl, FSub(F(1), FPow(ecc, 2)))
Period(a, m) ==
    FSqrt(FDiv(FMul(FMul(F(4), FPow(PI, 2)), FPow(a, 3)), FMul(G, m)))
Hundred == 100
StepSize(period) == FDiv(period, F(Hundred))
\* numpy.arange(start, stop, step).size: ceil((stop - start) / step)
ArangeSize(first, stop, delta) ==
    LET n == FCeil(FDiv(FSub(stop, first), delta)) IN IF n < 0 THEN 0 ELSE n

\* the global variables cell
Globals ==
    /\ ECC \in EccValues
    /\ M2 \in M2Values
    /\ L \in LValues
    /\ M = TotalMass(M1, M2)
    /\ MU = ReducedMass(M1, M2)
    /\ RL = SemiLatusRectum(L, M, MU)
    /\ E = TotalEnergy(L, M, MU, ECC)

\* the state when the simulation cell starts
InitOrbit ==
    /\ Globals
    /\ T = Period(SemiMajorAxis(RL, ECC), M)
    /\ dt = StepSize(T)
    /\ tsize = ArangeSize(F(0), FAdd(T, dt), dt)
    /\ phi = <<F(0)>>
    /\ i = 0
    /\ frame = NoFrame(FZero, FZero)
    /\ NoDiagnostics
    /\ pcO = "loop"
    /\ ReaderIdle
    /\ ScriptIdle

\* a loop that stops as soon as the orbit has closed (phi >= 2 pi)
RangeHasNextUntilClosed(k, n) ==
    k < n /\ FLt(phi[Len(phi)], FMul(F(2), PI))

\* for i in range(t.size - 1): whether the range has a value for this pass
RangeHasNext(k, n) == k < n

\* one pass of a loop that halves the step after every pass
SimStepAdaptive ==
    /\ pcO = "loop"
    /\ RangeHasNext(i, tsize - 1)
    /\ frame' = rk4(PyIndex(phi, i), dt)
    /\ phi' = Append(phi, frame'.ret)
    /\ i' = i + 1
    /\ dt' = FDiv(dt, F(2))
    /\ UNCHANGED <<ECC, M2, M, MU, L, RL, E, T, tsize, pcO>>
    /\ UNCHANGED diagVars
    /\ UNCHANGED <<readerVars, scriptVars>>

\* one pass of a loop that integrates from the initial phase every time
SimStepFromFirst ==
    /\ pcO = "loop"
    /\ RangeHasNext(i, tsize - 1)
    /\ frame' = rk4(PyIndex(phi, 0), dt)
    /\ phi' = Append(phi, frame'.ret)
    /\ i' = i + 1
    /\ UNCHANGED <<ECC, M2, M, MU, L, RL, E, T, dt, tsize, pcO>>
    /\ UNCHANGED diagVars
    /\ UNCHANGED <<readerVars, scriptVars>>

\* one pass of the loop: phi.append(rk4(phi[i], dt))
SimStep ==
    /\ pcO = "loop"
    /\ RangeHasNext(i, tsize - 1)
    /\ frame' = rk4(PyIndex(phi, i), dt)
    /\ phi' = Append(phi, frame'.ret)
    /\ i' = i + 1
    /\ UNCHANGED <<ECC, M2, M, MU, L, RL, E, T, dt, tsize, pcO>>
    /\ UNCHANGED diagVars
    /\ UNCHANGED <<readerVars, scriptVars>>

\* the range is exhausted: the cell ends
LoopExit ==
    /\ pcO = "loop"
    /\ ~RangeHasNext(i, tsize - 1)
    /\ pcO' = "done"
    /\ UNCHANGED <<ECC, M2, M, MU, L, RL, E, T, dt, tsize, phi, i, frame>>
    /\ UNCHANGED diagVars
    /\ UNCHANGED <<readerVars, scriptVars>>

\* get radial position: phi = numpy.array(phi), whose elements are the
\* list's as floats, and r = RL / (1 + ECC * numpy.cos(phi)), element by
\* element
RadialPosition ==
    /\ pcO = "done"
    /\ phi' = [k \in 1..Len(phi) |-> FAdd(phi[k], FZero)]
    /\ r' = [k \in 1..Len(phi) |->
                FDiv(RL, FAdd(F(1), FMul(ECC, FCos(phi'[k]))))]
    /\ pcO' = "radial"
    /\ UNCHANGED <<ECC, M2, M, MU, L, RL, E, T, dt, tsize, i, frame>>
    /\ UNCHANGED <<rdot, energy, error, phidot, angmomentum, Lerror>>
    /\ UNCHANGED <<readerVars, scriptVars>>

\* a derivative taken with the one-sided difference at every sample
GradientOneSided(f, h) ==
    [k \in 1..Len(f) |->
        IF k = Len(f) THEN FDiv(FSub(f[k], f[k - 1]), h)
        ELSE FDiv(FSub(f[k + 1], f[k]), h)]

\* numpy.gradient(f, h) of a series of two samples or more: the one-sided
\* difference at the first and the last sample, the central difference
\* (f[k+1] - f[k-1]) / (2. * h) between them
Gradient(f, h) ==
    [k \in 1..Len(f) |->
        IF k = 1 THEN FDiv(FSub(f[2], f[1]), h)
        ELSE IF k = Len(f) THEN FDiv(FSub(f[k], f[k - 1]), h)
        ELSE FDiv(FSub(f[k + 1], f[k - 1]), FMul(F(2), h))]

\* numpy.gradient raises ValueError for a series of fewer than two samples
GradientRaises(f) == Len(f) < 2

FAbs(a) == [a EXCEPT !.s = 1]
Half == Lit(1, -1)     \* 0.5

\* 0.5*MU*rdot**2 - G*M*MU/r + L**2/(2*MU*r**2) at one sample
EnergyAt(rk, rdotk) ==
    FAdd(FSub(FMul(FMul(Half, MU), FPow(rdotk, 2)),
              FDiv(FMul(FMul(G, M), MU), rk)),
         FDiv(FPow(L, 2), FMul(FMul(F(2), MU), FPow(rk, 2))))

\* numpy.abs((x - ref) / ref)
RelError(x, ref) == FAbs(FDiv(FSub(x, ref), ref))

\* check that the energy is conserved: rdot, energy, error.  Nothing in the
\* cell reads error but the plot
EnergyCheck ==
    /\ pcO = "radial"
    /\ IF GradientRaises(r)
       THEN /\ pcO' = "raised"
            /\ UNCHANGED <<rdot, energy, error>>
       ELSE /\ rdot' = Gradient(r, dt)
            /\ energy' = [k \in 1..Len(r) |-> EnergyAt(r[k], rdot'[k])]
            /\ error' = [k \in 1..Len(r) |-> RelError(energy'[k], E)]
            /\ pcO' = "energy"
    /\ UNCHANGED <<ECC, M2, M, MU, L, RL, E, T, dt, tsize, phi, i, frame>>
    /\ UNCHANGED <<r, phidot, angmomentum, Lerror>>
    /\ UNCHANGED <<readerVars, scriptVars>>

\* the tolerance of the conservation checks: 1%
Tolerance == Lit(671089, -26)     \* 0.01

\* an angular momentum check that stops the run when an error is not below
\* the tolerance
AngularMomentumGate ==
    /\ pcO = "energy"
    /\ phidot' = Gradient(phi, dt)
    /\ angmomentum' =
           [k \in 1..Len(phi) |-> FMul(FMul(MU, FPow(r[k], 2)), phidot'[k])]
    /\ Lerror' = [k \in 1..Len(phi) |-> RelError(angmomentum'[k], L)]
    /\ pcO' = IF \E k \in 1..Len(phi) : ~FLt(Lerror'[k], Tolerance)
              THEN "raised" ELSE "end"
    /\ UNCHANGED <<ECC, M2, M, MU, L, RL, E, T, dt, tsize, phi, i, frame>>
    /\ UNCHANGED <<r, rdot, energy, error>>
    /\ UNCHANGED <<readerVars, scriptVars>>

\* check that the angular momentum is conserved: phidot, angmomentum,
\* Lerror.  Nothing in the cell reads Lerror but the plot
AngularMomentumCheck ==
    /\ pcO = "energy"
    /\ IF GradientRaises(phi)
       THEN /\ pcO' = "raised"
            /\ UNCHANGED <<phidot, angmomentum, Lerror>>
       ELSE /\ phidot' = Gradient(phi, dt)
            /\ angmomentum' =
                   [k \in 1..Len(phi) |->
                       FMul(FMul(MU, FPow(r[k], 2)), phidot'[k])]
            /\ Lerror' = [k \in 1..Len(phi) |-> RelError(angmomentum'[k], L)]
            /\ pcO' = "end"
    /\ UNCHANGED <<ECC, M2, M, MU, L, RL, E, T, dt, tsize, phi, i, frame>>
    /\ UNCHANGED <<r, rdot, energy, error>>
    /\ UNCHANGED <<readerVars, scriptVars>>

\* a single call rk4(y, h), for sample arguments y and h > 0
SampleY == {F(0), F(1), F(-1), F(3), F(6), F(-7), F(100), Lit(524288, -20)}
SampleH(h) == {h, FDiv(h, F(2)), FMul(F(3), h)}

InitRk4 ==
    /\ Globals
    /\ T = Period(SemiMajorAxis(RL, ECC), M)
    /\ dt = StepSize(T)
    /\ tsize = ArangeSize(F(0), FAdd(T, dt), dt)
    /\ phi = <<F(0)>>
    /\ i = 0
    /\ \E y \in SampleY : \E h \in SampleH(dt) : frame = NoFrame(y, h)
    /\ NoDiagnostics
    /\ pcO = "rk4"
    /\ ReaderIdle
    /\ ScriptIdle

CallRk4 ==
    /\ pcO = "rk4"
    /\ frame' = rk4(frame.y, frame.h)
    /\ pcO' = "rk4ret"
    /\ UNCHANGED <<ECC, M2, M, MU, L, RL, E, T, dt, tsize, phi, i>>
    /\ UNCHANGED diagVars
    /\ UNCHANGED <<readerVars, scriptVars>>

----------------------------------------------------------------------------
(* gamma-ray-bursts.ipynb: read_txt_from_url(path, columns, start, step)   *)
(*                                                                         *)
(* The file behind the URL is a sequence of lines, a line a sequence of    *)
(* characters ending with a newline, as response.readlines() returns them. *)

MaxLines    == 15     \* the longest table
MaxBadTable == 6      \* the length of the tables with one malformed line
MaxStart    == 5      \* start is in 0..MaxStart
MaxStep     == 5      \* step is in 0..MaxStep

Digits == <<"0", "1", "2", "3", "4", "5", "6", "7", "8", "9">>
IsDigit(c) == \E d \in 1..10 : Digits[d] = c
DigitVal(c) == (CHOOSE d \in 1..10 : Digits[d] = c) - 1
IsSpace(c) == c \in {" ", "\n", "\t"}

RECURSIVE IntToChars(_)
IntToChars(n) ==
    IF n < 10 THEN <<Digits[n + 1]>>
    ELSE Append(IntToChars(n \div 10), Digits[(n % 10) + 1])

\* line k of the synthetic table: "<k>  <2k> 7.5", its first token the line's
\* number
SynthLine(k) ==
    IntToChars(k) \o <<" ", " ">> \o IntToChars(2 * k)
                  \o <<" ", "7", ".", "5", "\n">>

SyntheticTable(n) == [k \in 1..n |-> SynthLine(k)]

\* malformed lines: a non-numeric first token, a non-numeric second token, a
\* single token, no token at all
BadLines == { <<"x", " ", "1", " ", "2", "\n">>,
              <<" ", "3", " ", "-", " ", "0", "8", "\n">>,
              <<"5", "\n">>,
              <<"\n">> }

TableWithBadLine(n, b, bad) ==
    [k \in 1..n |-> IF k = b THEN bad ELSE SynthLine(k)]

Tables ==
    { SyntheticTable(n) : n \in 0..MaxLines }
    \cup { TableWithBadLine(MaxBadTable, b, bad) :
               b \in 1..MaxBadTable, bad \in BadLines }

ColumnChoices ==
    { <<1>>, <<2>>, <<3>>, <<1, 2>>, <<2, 1>>, <<3, 1, 2>>, <<1, 1>>,
      <<4>>, <<0>>, <<-1>>, <<2, 0>>, << >> }

\* bytes.split(): the maximal runs of characters that are not whitespace
RECURSIVE SplitFrom(_, _, _, _)
SplitFrom(line, pos, cur, acc) ==
    IF pos > Len(line)
    THEN (IF cur = << >> THEN acc ELSE Append(acc, cur))
    ELSE IF IsSpace(line[pos])
    THEN SplitFrom(line, pos + 1, << >>,
                   IF cur = << >> THEN acc ELSE Append(acc, cur))
    ELSE SplitFrom(line, pos + 1, Append(cur, line[pos]), acc)

Split(line) == SplitFrom(line, 1, << >>, << >>)

\* float(token): an optional sign, then digits with at most one point among
\* them and at least one digit.  [ok, val]: ok is FALSE for a ValueError.
RECURSIVE DigitsValue(_)
DigitsValue(ds) ==
    IF ds = << >> THEN 0
    ELSE 10 * DigitsValue(SubSeq(ds, 1, Len(ds) - 1)) + DigitVal(ds[Len(ds)])

ParseFloat(tok) ==
    LET signed == tok # << >> /\ tok[1] \in {"-", "+"}
        body   == IF signed THEN SubSeq(tok, 2, Len(tok)) ELSE tok
        points == { p \in 1..Len(body) : body[p] = "." }
        ds     == SelectSeq(body, IsDigit)
        valid  == /\ Cardinality(points) <= 1
                  /\ Len(ds) >= 1
                  /\ Len(ds) + Cardinality(points) = Len(body)
        after  == IF points = {} THEN 0
                  ELSE Len(body) - (CHOOSE p \in points : TRUE)
        den    == 10 ^ after
        shift  == MantBits + 2 + BitLen(den)
        num    == DigitsValue(ds) * 2^shift
        sgn    == IF signed /\ tok[1] = "-" THEN -1 ELSE 1
    IN  IF ~valid THEN [ok |-> FALSE, val |-> FZero]
        ELSE [ok |-> TRUE,
              val |-> IF num = 0 THEN FZero
                      ELSE RoundSticky(sgn, num \div den, -shift,
                                       num % den # 0)]

\* a slice whose first index, when it is past the end, is taken as the last
PySliceClamped(seq, lo, stride) ==
    LET n   == Len(seq)
        lo1 == IF lo < 0 THEN (IF lo + n < 0 THEN 0 ELSE lo + n)
               ELSE (IF lo >= n /\ n > 0 THEN n - 1 ELSE lo)
        cnt == IF lo1 >= n THEN 0 ELSE (n - lo1 - 1) \div stride + 1
    IN  [j \in 1..cnt |-> seq[lo1 + (j - 1) * stride + 1]]

\* seq[lo::step] for step > 0
PySlice(seq, lo, stride) ==
    LET n   == Len(seq)
        lo1 == IF lo < 0 THEN (IF lo + n < 0 THEN 0 ELSE lo + n)
               ELSE (IF lo > n THEN n ELSE lo)
        cnt == IF lo1 >= n THEN 0 ELSE (n - lo1 - 1) \div stride + 1
    IN  [j \in 1..cnt |-> seq[lo1 + (j - 1) * stride + 1]]

\* the slice's first index, for the 1-counted start, taken as it is
SliceStartUnshifted(first) == first

\* the slice's first index, for the 1-counted start: start-1
SliceStart(first) == first - 1

\* the list index of column i, taken as it is
ColumnIndexUnshifted(c) == c

\* the list index of column i: i-1
ColumnIndex(c) == c - 1

Returned(data) == [kind |-> "return", exc |-> "none", data |-> data]
Raised(exc)    == [kind |-> "raise", exc |-> exc, data |-> << >>]
NoOutcome      == [kind |-> "none", exc |-> "none", data |-> << >>]

\* float(line.split()[i-1]): the value, or the exception raised
Cell(line, c) ==
    LET toks == Split(line) IN
    IF ~PyInRange(toks, ColumnIndex(c)) THEN [exc |-> "IndexError", val |-> FZero]
    ELSE LET p == ParseFloat(PyIndex(toks, ColumnIndex(c)))
         IN  IF p.ok THEN [exc |-> "none", val |-> p.val]
             ELSE [exc |-> "ValueError", val |-> FZero]

\* a comprehension that leaves out the lines it cannot parse
RECURSIVE ColumnValuesSkipping(_, _, _, _)
ColumnValuesSkipping(ls, c, k, acc) ==
    IF k > Len(ls) THEN Returned(acc)
    ELSE LET v == Cell(ls[k], c)
         IN  IF v.exc # "none" THEN ColumnValuesSkipping(ls, c, k + 1, acc)
             ELSE ColumnValuesSkipping(ls, c, k + 1, Append(acc, v.val))

\* [float(line.split()[i-1]) for line in lines], from line k on: the list,
\* or the first exception, which discards the values collected in acc
RECURSIVE ColumnValues(_, _, _, _)
ColumnValues(ls, c, k, acc) ==
    IF k > Len(ls) THEN Returned(acc)
    ELSE LET v == Cell(ls[k], c)
         IN  IF v.exc # "none" THEN Raised(v.exc)
             ELSE ColumnValues(ls, c, k + 1, Append(acc, v.val))

RECURSIVE SortedSeq(_)
SortedSeq(S) ==
    IF S = {} THEN << >>
    ELSE LET least == CHOOSE x \in S : \A y \in S : x <= y
         IN  <<least>> \o SortedSeq(S \ {least})

\* the columns taken as a set: each once, in increasing order
ColumnOrderAsSet(cols) == SortedSeq({ cols[j] : j \in 1..Len(cols) })

\* for i in columns: the columns in the order they were given
ColumnOrder(cols) == cols

\* [numpy.array([...]) for i in columns], from column j on
RECURSIVE ParseColumns(_, _, _, _)
ParseColumns(ls, cols, j, acc) ==
    IF j > Len(cols) THEN Returned(acc)
    ELSE LET col == ColumnValues(ls, cols[j], 1, << >>)
         IN  IF col.kind = "raise" THEN Raised(col.exc)
             ELSE ParseColumns(ls, cols, j + 1, Append(acc, col.data))

\* the orbit notebook, when the notebook run is the catalogue notebook
OrbitIdle ==
    /\ ECC = FZero /\ M2 = FZero /\ M = FZero /\ MU = FZero /\ L = FZero
    /\ RL = FZero /\ E = FZero /\ T = FZero /\ dt = FZero
    /\ NoDiagnostics
    /\ tsize = 0
    /\ phi = << >>
    /\ i = 0
    /\ frame = NoFrame(FZero, FZero)
    /\ pcO = "idle"

\* the arguments of a call, and the file it will be given
ReaderCall ==
    /\ cell = 0
    /\ table \in Tables
    /\ columns \in ColumnChoices
    /\ start \in 0..MaxStart
    /\ step \in 0..MaxStep
    /\ conn = 0
    /\ opens = 0
    /\ lines = << >>
    /\ pending = "none"
    /\ outcome = NoOutcome
    /\ pcR = "urlopen"
    /\ OrbitIdle
    /\ ScriptIdle

\* urllib.request.urlopen(path) returns a response
UrlOpen ==
    /\ pcR = "urlopen"
    /\ opens' = opens + 1
    /\ conn' = conn + 1
    /\ pcR' = "readlines"
    /\ UNCHANGED <<cell, table, columns, start, step, lines, pending, outcome>>
    /\ UNCHANGED <<orbitVars, scriptVars>>

\* a reader that requests the URL once more when the request fails
UrlOpenFailsRetrying ==
    /\ pcR = "urlopen"
    /\ opens' = opens + 1
    /\ IF opens = 0
       THEN pcR' = "urlopen" /\ outcome' = outcome
       ELSE pcR' = "done" /\ outcome' = Raised("URLError")
    /\ UNCHANGED <<cell, table, columns, start, step, conn, lines, pending>>
    /\ UNCHANGED <<orbitVars, scriptVars>>

\* urllib.request.urlopen(path) raises: the call ends
UrlOpenFails ==
    /\ pcR = "urlopen"
    /\ opens' = opens + 1
    /\ outcome' = Raised("URLError")
    /\ pcR' = "done"
    /\ UNCHANGED <<cell, table, columns, start, step, conn, lines, pending>>
    /\ UNCHANGED <<orbitVars, scriptVars>>

\* lines = response.readlines()[start-1::step]; a step of 0 is a ValueError
ReadLines ==
    /\ pcR = "readlines"
    /\ IF step = 0
       THEN pending' = "ValueError" /\ lines' = lines
       ELSE pending' = "none"
            /\ lines' = PySlice(table, SliceStart(start), step)
    /\ pcR' = "exit"
    /\ UNCHANGED <<cell, table, columns, start, step, conn, opens, outcome>>
    /\ UNCHANGED <<orbitVars, scriptVars>>

\* response.readlines() raises
ReadLinesFails ==
    /\ pcR = "readlines"
    /\ pending' = "OSError"
    /\ pcR' = "exit"
    /\ UNCHANGED <<cell, table, columns, start, step, conn, opens, lines,
                   outcome>>
    /\ UNCHANGED <<orbitVars, scriptVars>>

\* a with block that leaves the response open when its body raised
WithExitLeaking ==
    /\ pcR = "exit"
    /\ conn' = (IF pending = "none" THEN conn - 1 ELSE conn)
    /\ IF pending = "none"
       THEN pcR' = "parse" /\ outcome' = outcome
       ELSE pcR' = "done" /\ outcome' = Raised(pending)
    /\ UNCHANGED <<cell, table, columns, start, step, opens, lines, pending>>
    /\ UNCHANGED <<orbitVars, scriptVars>>

\* the with block is left: the response is closed, and an exception raised
\* in the block ends the call
WithExit ==
    /\ pcR = "exit"
    /\ conn' = conn - 1
    /\ IF pending = "none"
       THEN pcR' = "parse" /\ outcome' = outcome
       ELSE pcR' = "done" /\ outcome' = Raised(pending)
    /\ UNCHANGED <<cell, table, columns, start, step, opens, lines, pending>>
    /\ UNCHANGED <<orbitVars, scriptVars>>

\* data = [numpy.array([...]) for i in columns]; return data
Parse ==
    /\ pcR = "parse"
    /\ outcome' = ParseColumns(lines, ColumnOrder(columns), 1, << >>)
    /\ pcR' = "done"
    /\ UNCHANGED <<cell, table, columns, start, step, conn, opens, lines,
                   pending>>
    /\ UNCHANGED <<orbitVars, scriptVars>>

----------------------------------------------------------------------------
(* gamma-ray-bursts.ipynb: the fetches of a run of the notebook, in the     *)
(* order of its cells: the basic table (columns 8, 9, 10), the H-alpha      *)
(* survey (a FITS file), the flux table (column 1, every 5th line from the  *)
(* 4th), the duration table (column 5).  What the cells do with the data    *)
(* read (units, sorting, figures) opens no connection and is left out.      *)

MaxWide == 4          \* the longest table of ten-column lines

FetchCells == 4
HalphaCell == 2

\* line k of a ten-column table: "<k> <k+1> ... <k+9>"
RECURSIVE WideFrom(_, _)
WideFrom(k, n) ==
    IF n = 1 THEN IntToChars(k) \o <<"\n">>
    ELSE IntToChars(k) \o <<" ">> \o WideFrom(k + 1, n - 1)

WideLine(k) == WideFrom(k, 10)
WideTable(n) == [k \in 1..n |-> WideLine(k)]

\* the files the catalogue's URLs may serve
CatalogueTables ==
    { WideTable(n) : n \in 0..MaxWide } \cup { SyntheticTable(2) }

\* the arguments of the read_txt_from_url call of a cell
CellColumns(c) ==
    IF c = 1 THEN <<8, 9, 10>> ELSE IF c = 3 THEN <<1>>
    ELSE IF c = 4 THEN <<5>> ELSE << >>
CellStart(c) == IF c = 3 THEN 4 ELSE 1
CellStep(c)  == IF c = 3 THEN 5 ELSE 1

\* the first fetch of the run is about to start
InitCatalogue ==
    /\ cell = 1
    /\ table \in CatalogueTables
    /\ columns = CellColumns(1)
    /\ start = CellStart(1)
    /\ step = CellStep(1)
    /\ conn = 0
    /\ opens = 0
    /\ lines = << >>
    /\ pending = "none"
    /\ outcome = NoOutcome
    /\ pcR = "urlopen"
    /\ OrbitIdle
    /\ ScriptIdle

\* the cell's fetch has ended (in a return or in an exception): the next
\* cell with a fetch is run
NextCell ==
    /\ pcR = "done"
    /\ cell >= 1 /\ cell < FetchCells
    /\ cell' = cell + 1
    /\ IF cell' = HalphaCell
       THEN table' = << >> /\ pcR' = "fits_urlopen"
       ELSE table' \in CatalogueTables /\ pcR' = "urlopen"
    /\ columns' = CellColumns(cell')
    /\ start' = CellStart(cell')
    /\ step' = CellStep(cell')
    /\ lines' = << >>
    /\ pending' = "none"
    /\ outcome' = NoOutcome
    /\ UNCHANGED <<conn, opens>>
    /\ UNCHANGED <<orbitVars, scriptVars>>

\* with urllib.request.urlopen(HALPHA_SURVEY) as response:
HalphaUrlOpen ==
    /\ pcR = "fits_urlopen"
    /\ opens' = opens + 1
    /\ conn' = conn + 1
    /\ pcR' = "fits_open"
    /\ UNCHANGED <<cell, table, columns, start, step, lines, pending, outcome>>
    /\ UNCHANGED <<orbitVars, scriptVars>>

HalphaUrlOpenFails ==
    /\ pcR = "fits_urlopen"
    /\ opens' = opens + 1
    /\ outcome' = Raised("URLError")
    /\ pcR' = "done"
    /\ UNCHANGED <<cell, table, columns, start, step, conn, lines, pending>>
    /\ UNCHANGED <<orbitVars, scriptVars>>

\* (_, milkyway) = fits.open(response)
FitsOpen ==
    /\ pcR = "fits_open"
    /\ pending' = "none"
    /\ pcR' = "fits_exit"
    /\ UNCHANGED <<cell, table, columns, start, step, conn, opens, lines,
                   outcome>>
    /\ UNCHANGED <<orbitVars, scriptVars>>

\* fits.open(response) raises, or the file has not exactly two HDUs
FitsOpenFails ==
    /\ pcR = "fits_open"
    /\ pending' \in {"OSError", "ValueError"}
    /\ pcR' = "fits_exit"
    /\ UNCHANGED <<cell, table, columns, start, step, conn, opens, lines,
                   outcome>>
    /\ UNCHANGED <<orbitVars, scriptVars>>

\* the with block of the download is left: the response is closed
HalphaWithExit ==
    /\ pcR = "fits_exit"
    /\ conn' = conn - 1
    /\ outcome' = (IF pending = "none" THEN Returned(<< >>)
                   ELSE Raised(pending))
    /\ pcR' = "done"
    /\ UNCHANGED <<cell, table, columns, start, step, opens, lines, pending>>
    /\ UNCHANGED <<orbitVars, scriptVars>>

----------------------------------------------------------------------------
(* conda/bh-set-variables, the staging script (python)                      *)
(*                                                                         *)
(* A shell fragment is a sequence of lines, a line a sequence of words.    *)

\* ACTIVATE and DEACTIVATE, the templates of the two fragments
ACTIVATE ==
    << <<"#!/bin/sh">>,
       << >>,
       <<"export", "GWPY_RCPARAMS", "=", "\"", "false", "\"">>,
       <<"export", "GWPY_USETEX", "=", "\"", "false", "\"">>,
       <<"export", "MATPLOTLIBRC", "=", "\"", "{data}", "\"">>,
       <<"export", "XDG_DATA_HOME", "=", "\"", "{data}", "\"">> >>

\* a deactivation template that leaves XDG_DATA_HOME set
DEACTIVATEShort ==
    << <<"#!/bin/sh">>,
       << >>,
       <<"unset", "GWPY_RCPARAMS">>,
       <<"unset", "GWPY_USETEX">>,
       <<"unset", "MATPLOTLIBRC">> >>

DEACTIVATE ==
    << <<"#!/bin/sh">>,
       << >>,
       <<"unset", "GWPY_RCPARAMS">>,
       <<"unset", "GWPY_USETEX">>,
       <<"unset", "MATPLOTLIBRC">>,
       <<"unset", "XDG_DATA_HOME">> >>

\* str.format(data=data): every field {data} of the template is replaced
Format(template, data) ==
    [k \in 1..Len(template) |->
        [w \in 1..Len(template[k]) |->
            IF template[k][w] = "{data}" THEN data ELSE template[k][w]]]

\* sys.prefix of the python that env finds: that of the active environment,
\* or the system's
SysPrefix == IF CONDA_PREFIX = "" THEN SystemPrefix ELSE CONDA_PREFIX

\* data = os.path.join(sys.prefix, 'etc', 'data')
DataPath(prefix) ==
    IF prefix = EnvPrefix THEN "envs/black-hole-3.7/etc/data"
    ELSE "/usr/etc/data"

\* what the shell does with a line of a sourced fragment: export NAME="value"
\* sets NAME, unset NAME unsets it, a comment or an empty line does nothing
IsExport(line) ==
    /\ Len(line) = 6 /\ line[1] = "export" /\ line[3] = "="
    /\ line[4] = "\"" /\ line[6] = "\""
IsUnset(line) == Len(line) = 2 /\ line[1] = "unset"

SourceLine(line, e) ==
    IF IsExport(line) THEN [e EXCEPT ![line[2]] = Value(line[5])]
    ELSE IF IsUnset(line) THEN [e EXCEPT ![line[2]] = Unset]
    ELSE e

RECURSIVE SourceFrom(_, _, _)
SourceFrom(text, k, e) ==
    IF k > Len(text) THEN e
    ELSE SourceFrom(text, k + 1, SourceLine(text[k], e))

Source(text, e) == SourceFrom(text, 1, e)

\* a prefix staged by an earlier run of the staging script
Staged(prefix) ==
    [activate_d |-> TRUE, deactivate_d |-> TRUE, data |-> TRUE,
     activate_sh |-> File(Format(ACTIVATE, DataPath(prefix))),
     deactivate_sh |-> File(DEACTIVATE),
     matplotlibrc |-> TRUE, fonts |-> TRUE]

\* the staging script ends: bh-conda-env goes on with the step after it
StagingEnds(ok, next) ==
    /\ pcP' = "idle"
    /\ pcS' = next
    /\ log' = Append(log, [kind |-> "run", text |-> <<"bh-set-variables">>,
                           ok |-> ok])

\* the script starts: share, activate, deactivate and data are computed
StartStaging ==
    /\ pcS = "stage" /\ pcP = "idle"
    /\ pcP' = "makedirs"
    /\ UNCHANGED <<argv1, pcS, exitStatus, log, env, CONDA_PREFIX, envExists,
                   fs>>
    /\ UNCHANGED <<orbitVars, readerVars>>

\* a script that copies the data right after it has made the directories
MakeDirsThenCopy(next) ==
    /\ pcS = "stage" /\ pcP = "makedirs"
    /\ \/ /\ fs' = [fs EXCEPT ![SysPrefix].activate_d = TRUE,
                              ![SysPrefix].deactivate_d = TRUE,
                              ![SysPrefix].data = TRUE]
          /\ pcP' = "copyfile"
          /\ UNCHANGED <<pcS, log>>
       \/ /\ SysPrefix = SystemPrefix
          /\ StagingEnds(FALSE, next)
          /\ UNCHANGED fs
    /\ UNCHANGED <<argv1, exitStatus, env, CONDA_PREFIX, envExists>>
    /\ UNCHANGED <<orbitVars, readerVars>>

\* os.makedirs(activate, exist_ok=True), and of deactivate and of data; in
\* the system's prefix the user may lack the permission
MakeDirs(next) ==
    /\ pcS = "stage" /\ pcP = "makedirs"
    /\ \/ /\ fs' = [fs EXCEPT ![SysPrefix].activate_d = TRUE,
                              ![SysPrefix].deactivate_d = TRUE,
                              ![SysPrefix].data = TRUE]
          /\ pcP' = "write_activate"
          /\ UNCHANGED <<pcS, log>>
       \/ /\ SysPrefix = SystemPrefix
          /\ StagingEnds(FALSE, next)
          /\ UNCHANGED fs
    /\ UNCHANGED <<argv1, exitStatus, env, CONDA_PREFIX, envExists>>
    /\ UNCHANGED <<orbitVars, readerVars>>

\* a write of the activation fragment with <prefix>/etc for data
WriteActivateEtc ==
    /\ pcS = "stage" /\ pcP = "write_activate"
    /\ fs' = [fs EXCEPT ![SysPrefix].activate_sh =
                            File(Format(ACTIVATE,
                                        IF SysPrefix = EnvPrefix
                                        THEN "envs/black-hole-3.7/etc"
                                        ELSE "/usr/etc"))]
    /\ pcP' = "write_deactivate"
    /\ UNCHANGED <<argv1, pcS, exitStatus, log, env, CONDA_PREFIX, envExists>>
    /\ UNCHANGED <<orbitVars, readerVars>>

\* with open(activate, 'w') as f: f.write(ACTIVATE.format(data=data))
WriteActivate ==
    /\ pcS = "stage" /\ pcP = "write_activate"
    /\ fs' = [fs EXCEPT ![SysPrefix].activate_sh =
                            File(Format(ACTIVATE, DataPath(SysPrefix)))]
    /\ pcP' = "write_deactivate"
    /\ UNCHANGED <<argv1, pcS, exitStatus, log, env, CONDA_PREFIX, envExists>>
    /\ UNCHANGED <<orbitVars, readerVars>>

\* with open(deactivate, 'w') as f: f.write(DEACTIVATE)
WriteDeactivate ==
    /\ pcS = "stage" /\ pcP = "write_deactivate"
    /\ fs' = [fs EXCEPT ![SysPrefix].deactivate_sh = File(DEACTIVATE)]
    /\ pcP' = "copyfile"
    /\ UNCHANGED <<argv1, pcS, exitStatus, log, env, CONDA_PREFIX, envExists>>
    /\ UNCHANGED <<orbitVars, readerVars>>

\* shutil.copyfile(share/matplotlibrc, data/matplotlibrc)
CopyMatplotlibrc ==
    /\ pcS = "stage" /\ pcP = "copyfile"
    /\ fs' = [fs EXCEPT ![SysPrefix].matplotlibrc = TRUE]
    /\ pcP' = "copytree"
    /\ UNCHANGED <<argv1, pcS, exitStatus, log, env, CONDA_PREFIX, envExists>>
    /\ UNCHANGED <<orbitVars, readerVars>>

\* shutil.copytree(share/fonts, data/fonts): the destination must not
\* exist (FileExistsError); the script then ends
CopyFonts(next) ==
    /\ pcS = "stage" /\ pcP = "copytree"
    /\ IF fs[SysPrefix].fonts
       THEN StagingEnds(FALSE, next) /\ UNCHANGED fs
       ELSE /\ fs' = [fs EXCEPT ![SysPrefix].fonts = TRUE]
            /\ StagingEnds(TRUE, next)
    /\ UNCHANGED <<argv1, exitStatus, env, CONDA_PREFIX, envExists>>
    /\ UNCHANGED <<orbitVars, readerVars>>

----------------------------------------------------------------------------
(* conda/bh-conda-env (bash).  The script does not stop at a command that   *)
(* fails: it has no set -e and tests no exit status.                        *)

Printed(line) == [kind |-> "echo", text |-> line, ok |-> TRUE]
Ran(cmd, ok)  == [kind |-> "run", text |-> cmd, ok |-> ok]
PrintAll(ls)  == [k \in 1..Len(ls) |-> Printed(ls[k])]

\* echo: one line, its words as they are
Echo(words) == << words >>

\* echo -e: the escape \n ends a line and \t is a tab
RECURSIVE EchoEFrom(_, _, _, _)
EchoEFrom(words, k, cur, acc) ==
    IF k > Len(words) THEN Append(acc, cur)
    ELSE IF words[k] = "\\n"
         THEN EchoEFrom(words, k + 1, << >>, Append(acc, cur))
    ELSE IF words[k] = "\\t"
         THEN EchoEFrom(words, k + 1, Append(cur, "\t"), acc)
    ELSE EchoEFrom(words, k + 1, Append(cur, words[k]), acc)

EchoE(words) == EchoEFrom(words, 1, << >>, << >>)

\* the first arguments the command is run with
Args ==
    {"-h", "--help", "create", "update", "check",
     "", "install", "Create", "CHECK", "-help", "help", "checks", "remove"}

\* the tests of the if and the two elif
IsHelp(a)           == a = "-h" \/ a = "--help"
IsCreateOrUpdate(a) == a = "create" \/ a = "update"
IsCheck(a)          == a = "check"

\* the steps of the create/update branch, in the order of its lines
CreateOrderSourceFirst == <<"env", "activate", "source", "stage", "fonts">>

CreateOrder == <<"env", "activate", "stage", "source", "fonts">>

\* the step after a step of the branch; exit 0 is after the last
After(st) ==
    LET k == CHOOSE j \in 1..Len(CreateOrder) : CreateOrder[j] = st
    IN  IF k = Len(CreateOrder) THEN "exit" ELSE CreateOrder[k + 1]

\* the environments the command is run in: the four variables unset or
\* MATPLOTLIBRC set by the user; black-hole-3.7 absent, created, or created
\* and staged by an earlier run
InitScript ==
    /\ argv1 \in Args
    /\ pcS = "start"
    /\ pcP = "idle"
    /\ exitStatus = -1
    /\ log = << >>
    /\ env \in {NoneSet,
                [NoneSet EXCEPT !["MATPLOTLIBRC"] = Value("~/matplotlibrc")]}
    /\ CONDA_PREFIX = ""
    /\ envExists \in BOOLEAN
    /\ fs \in { [p \in Prefixes |-> Unstaged] }
              \cup (IF envExists
                    THEN { [p \in Prefixes |->
                              IF p = EnvPrefix THEN Staged(p) ELSE Unstaged] }
                    ELSE { })
    /\ OrbitIdle
    /\ ReaderIdle

SCRIPTDIR == "conda"

\* the arguments of the echo -e commands of the help branch
HelpEchoes ==
    << <<"usage: bh-conda-env [-h] {create|check|update}", "\\n">>,
       <<"Create or update the conda environment for">>,
       <<"Black Hole Astrophysics", "\\n">>,
       <<"positional arguments:">>,
       <<"  action", "\\t", "\\t", "conda action to perform, must be one">>,
       <<"\\t", "\\t", "\\t", "of 'create', 'check', or 'update'", "\\n">>,
       <<"optional arguments:">>,
       <<"  -h, --help", "\\t", "\\t", "show this help message and exit">> >>

RECURSIVE EchoEAll(_, _)
EchoEAll(args, k) ==
    IF k > Len(args) THEN << >> ELSE EchoE(args[k]) \o EchoEAll(args, k + 1)

\* a help branch that activates the environment before it prints
HelpActivating ==
    /\ pcS = "start"
    /\ IsHelp(argv1)
    /\ log' = log \o <<Ran(<<"conda activate black-hole-3.7">>, envExists)>>
                  \o PrintAll(EchoEAll(HelpEchoes, 1))
    /\ CONDA_PREFIX' = (IF envExists THEN EnvPrefix ELSE CONDA_PREFIX)
    /\ exitStatus' = 0
    /\ pcS' = "exited"
    /\ UNCHANGED <<argv1, pcP, env, envExists, fs>>
    /\ UNCHANGED <<orbitVars, readerVars>>

\* if [[ "$1" == "-h" || "$1" == "--help" ]]: print help string; exit 0
Help ==
    /\ pcS = "start"
    /\ IsHelp(argv1)
    /\ log' = log \o PrintAll(EchoEAll(HelpEchoes, 1))
    /\ exitStatus' = 0
    /\ pcS' = "exited"
    /\ UNCHANGED <<argv1, pcP, env, CONDA_PREFIX, envExists, fs>>
    /\ UNCHANGED <<orbitVars, readerVars>>

\* CMD="conda env $1 --file ${SCRIPTDIR}/environment.yaml --verbose"
EnvCMD ==
    <<"conda env ", argv1, " --file ", SCRIPTDIR, "/environment.yaml --verbose">>

\* a first step that ends the script when conda env fails, as under set -e
CondaEnvStopping ==
    /\ pcS = "start"
    /\ IsCreateOrUpdate(argv1)
    /\ \E ok \in BOOLEAN :
           /\ ok => ~(argv1 = "create" /\ envExists)
           /\ log' = log \o <<Printed(EnvCMD), Ran(EnvCMD, ok)>>
           /\ envExists' = (envExists \/ ok)
           /\ pcS' = (IF ok THEN After("env") ELSE "exited")
           /\ exitStatus' = (IF ok THEN exitStatus ELSE 1)
    /\ UNCHANGED <<argv1, pcP, env, CONDA_PREFIX, fs>>
    /\ UNCHANGED <<orbitVars, readerVars>>

\* elif create or update: echo ${CMD}; eval ${CMD}.  conda may fail; conda
\* env create fails when the environment exists
CondaEnv ==
    /\ pcS = "start"
    /\ IsCreateOrUpdate(argv1)
    /\ \E ok \in BOOLEAN :
           /\ ok => ~(argv1 = "create" /\ envExists)
           /\ log' = log \o <<Printed(EnvCMD), Ran(EnvCMD, ok)>>
           /\ envExists' = (envExists \/ ok)
    /\ pcS' = After("env")
    /\ UNCHANGED <<argv1, pcP, exitStatus, env, CONDA_PREFIX, fs>>
    /\ UNCHANGED <<orbitVars, readerVars>>

\* conda_activate: source conda.sh; conda activate black-hole-3.7.  It
\* succeeds only when the environment exists; conda then sources the
\* activation fragment of the environment if there is one
CondaActivate ==
    /\ \/ pcS = "activate" /\ pcS' = After("activate")
       \/ pcS = "start" /\ IsCheck(argv1) /\ pcS' = "info"
    /\ \E ok \in BOOLEAN :
           /\ ok => envExists
           /\ log' = Append(log, Ran(<<"conda activate black-hole-3.7">>, ok))
           /\ CONDA_PREFIX' = (IF ok THEN EnvPrefix ELSE CONDA_PREFIX)
           /\ env' = (IF ok /\ fs[EnvPrefix].activate_sh.exists
                      THEN Source(fs[EnvPrefix].activate_sh.text, env)
                      ELSE env)
    /\ UNCHANGED <<argv1, pcP, exitStatus, envExists, fs>>
    /\ UNCHANGED <<orbitVars, readerVars>>

\* source "${CONDA_PREFIX}/etc/conda/activate.d/env_vars.sh": it fails when
\* there is no such file
SourceFragment ==
    /\ pcS = "source"
    /\ LET found == /\ CONDA_PREFIX \in Prefixes
                     /\ fs[CONDA_PREFIX].activate_sh.exists
       IN  /\ env' = (IF found
                      THEN Source(fs[CONDA_PREFIX].activate_sh.text, env)
                      ELSE env)
           /\ log' = Append(log,
                  Ran(<<"source ", CONDA_PREFIX,
                        "/etc/conda/activate.d/env_vars.sh">>, found))
    /\ pcS' = After("source")
    /\ UNCHANGED <<argv1, pcP, exitStatus, CONDA_PREFIX, envExists, fs>>
    /\ UNCHANGED <<orbitVars, readerVars>>

\* python -c "from matplotlib import font_manager as fm; fm._rebuild()"
RebuildFontCache ==
    /\ pcS = "fonts"
    /\ \E ok \in BOOLEAN :
           log' = Append(log, Ran(<<"python -c fm._rebuild()">>, ok))
    /\ pcS' = After("fonts")
    /\ UNCHANGED <<argv1, pcP, exitStatus, env, CONDA_PREFIX, envExists, fs>>
    /\ UNCHANGED <<orbitVars, readerVars>>

\* exit 0, the last line of the create/update branch
ExitCreate ==
    /\ pcS = "exit"
    /\ exitStatus' = 0
    /\ pcS' = "exited"
    /\ UNCHANGED <<argv1, pcP, log, env, CONDA_PREFIX, envExists, fs>>
    /\ UNCHANGED <<orbitVars, readerVars>>

\* CMD="conda info --all"; echo ${CMD}; eval ${CMD}
InfoCMD == <<"conda info --all">>

\* a check that stages the active prefix once conda info has run
CondaInfoStaging ==
    /\ pcS = "info"
    /\ \E ok \in BOOLEAN :
           log' = log \o <<Printed(InfoCMD), Ran(InfoCMD, ok),
                           Ran(<<"bh-set-variables">>, TRUE)>>
    /\ fs' = [fs EXCEPT ![SysPrefix] = Staged(SysPrefix)]
    /\ pcS' = "report"
    /\ UNCHANGED <<argv1, pcP, exitStatus, env, CONDA_PREFIX, envExists>>
    /\ UNCHANGED <<orbitVars, readerVars>>

CondaInfo ==
    /\ pcS = "info"
    /\ \E ok \in BOOLEAN :
           log' = log \o <<Printed(InfoCMD), Ran(InfoCMD, ok)>>
    /\ pcS' = "report"
    /\ UNCHANGED <<argv1, pcP, exitStatus, env, CONDA_PREFIX, envExists, fs>>
    /\ UNCHANGED <<orbitVars, readerVars>>

\* ${NAME}: the value of a variable, empty when it is unset
Expand(name) == IF env[name].set THEN env[name].val ELSE ""

\* a report that prints MATPLOTLIBRC before GWPY_USETEX
ReportVariablesSwapped ==
    /\ pcS = "report"
    /\ log' = log \o PrintAll(
                  EchoE(<<"\\n", "Checking environment variables:">>)
                  \o Echo(<<"GWPY_RCPARAMS: ", Expand("GWPY_RCPARAMS")>>)
                  \o Echo(<<"MATPLOTLIBRC: ", Expand("MATPLOTLIBRC")>>)
                  \o Echo(<<"GWPY_USETEX: ", Expand("GWPY_USETEX")>>)
                  \o Echo(<<"XDG_DATA_HOME: ", Expand("XDG_DATA_HOME")>>))
    /\ pcS' = "matplotlib"
    /\ UNCHANGED <<argv1, pcP, exitStatus, env, CONDA_PREFIX, envExists, fs>>
    /\ UNCHANGED <<orbitVars, readerVars>>

\* check environment variables: the five echo commands
ReportVariables ==
    /\ pcS = "report"
    /\ log' = log \o PrintAll(
                  EchoE(<<"\\n", "Checking environment variables:">>)
                  \o Echo(<<"GWPY_RCPARAMS: ", Expand("GWPY_RCPARAMS")>>)
                  \o Echo(<<"GWPY_USETEX: ", Expand("GWPY_USETEX")>>)
                  \o Echo(<<"MATPLOTLIBRC: ", Expand("MATPLOTLIBRC")>>)
                  \o Echo(<<"XDG_DATA_HOME: ", Expand("XDG_DATA_HOME")>>))
    /\ pcS' = "matplotlib"
    /\ UNCHANGED <<argv1, pcP, exitStatus, env, CONDA_PREFIX, envExists, fs>>
    /\ UNCHANGED <<orbitVars, readerVars>>

\* python -c "from matplotlib import rcParams"; echo -e "\n-- All done --";
\* exit 0
CheckMatplotlib ==
    /\ pcS = "matplotlib"
    /\ \E ok \in BOOLEAN :
           log' = log \o <<Ran(<<"python -c from matplotlib import rcParams">>,
                               ok)>>
                      \o PrintAll(EchoE(<<"\\n", "-- All done --">>))
    /\ exitStatus' = 0
    /\ pcS' = "exited"
    /\ UNCHANGED <<argv1, pcP, env, CONDA_PREFIX, envExists, fs>>
    /\ UNCHANGED <<orbitVars, readerVars>>

\* an else branch that reports success
UnrecognizedExitsZero ==
    /\ pcS = "start"
    /\ ~IsHelp(argv1) /\ ~IsCreateOrUpdate(argv1) /\ ~IsCheck(argv1)
    /\ log' = log \o PrintAll(
                  Echo(<<"Unrecognized action ", argv1>>)
                  \o Echo(<<"Argument must be one of 'create', 'check', or 'update'">>))
    /\ exitStatus' = 0
    /\ pcS' = "exited"
    /\ UNCHANGED <<argv1, pcP, env, CONDA_PREFIX, envExists, fs>>
    /\ UNCHANGED <<orbitVars, readerVars>>

\* else: argument not supported; exit 1
Unrecognized ==
    /\ pcS = "start"
    /\ ~IsHelp(argv1) /\ ~IsCreateOrUpdate(argv1) /\ ~IsCheck(argv1)
    /\ log' = log \o PrintAll(
                  Echo(<<"Unrecognized action ", argv1>>)
                  \o Echo(<<"Argument must be one of 'create', 'check', or 'update'">>))
    /\ exitStatus' = 1
    /\ pcS' = "exited"
    /\ UNCHANGED <<argv1, pcP, env, CONDA_PREFIX, envExists, fs>>
    /\ UNCHANGED <<orbitVars, readerVars>>

vars == <<orbitVars, readerVars, scriptVars>>

Init == InitOrbit
Next ==
    SimStep \/ LoopExit \/ RadialPosition \/ EnergyCheck \/ AngularMomentumCheck
Spec == Init /\ [][Next]_vars

NextRk4 == CallRk4
SpecRk4 == InitRk4 /\ [][NextRk4]_vars

InitReader == ReaderCall
NextReader ==
    UrlOpen \/ UrlOpenFails \/ ReadLines \/ ReadLinesFails \/ WithExit \/ Parse
SpecReader == InitReader /\ [][NextReader]_vars

NextCatalogue ==
    \/ NextReader
    \/ NextCell
    \/ HalphaUrlOpen \/ HalphaUrlOpenFails
    \/ FitsOpen \/ FitsOpenFails
    \/ HalphaWithExit
SpecCatalogue == InitCatalogue /\ [][NextCatalogue]_vars

NextStaging ==
    \/ StartStaging
    \/ MakeDirs(After("stage"))
    \/ WriteActivate
    \/ WriteDeactivate
    \/ CopyMatplotlibrc
    \/ CopyFonts(After("stage"))
NextScript ==
    \/ Help
    \/ CondaEnv \/ CondaActivate \/ NextStaging \/ SourceFragment
    \/ RebuildFontCache \/ ExitCreate
    \/ CondaInfo \/ ReportVariables \/ CheckMatplotlib
    \/ Unrecognized
SpecScript == InitScript /\ [][NextScript]_vars

----------------------------------------------------------------------------
(* The orbit integrator's properties                                       *)

\* C1: rk4(y, h) returns y + (1/6)(k1 + 2 k2 + 2 k3 + k4), where
\* k1 = h F(y), k2 = h F(y + k1/2), k3 = h F(y + k2/2), k4 = h F(y + k3) and
\* F is rhs: each stage is computed from y, h and the stage before it.  (The
\* sixth of the sum is taken as in the notebook's equation, as the product
\* with 1/6.)
Rk4Formula ==
    pcO = "rk4ret" =>
        LET y  == frame.y
            h  == frame.h
            k1 == FMul(h, rhs(y))
            k2 == FMul(h, rhs(FAdd(y, FDiv(k1, F(2)))))
            k3 == FMul(h, rhs(FAdd(y, FDiv(k2, F(2)))))
            k4 == FMul(h, rhs(FAdd(y, k3)))
            weighted == FAdd(FAdd(FAdd(k1, FMul(F(2), k2)), FMul(F(2), k3)), k4)
        IN  /\ frame.k1 = k1
            /\ frame.k2 = k2
            /\ frame.k3 = k3
            /\ frame.k4 = k4
            /\ frame.ret = FAdd(y, FMul(FDiv(F(1), F(6)), weighted))

\* a call has returned whose four stages differ, from a nonzero y
Rk4FormulaWitness ==
    /\ pcO = "rk4ret"
    /\ frame.called
    /\ frame.y.m # 0
    /\ frame.k1 # frame.k2
    /\ frame.k2 # frame.k3
    /\ frame.k3 # frame.k4
    /\ frame.ret # frame.y

\* C2: the run ends with a phase series of exactly 101 elements (100 RK4
\* steps), the first of them 0, and a time grid of exactly 101 samples
GridHas101 ==
    pcO = "done" =>
        /\ tsize = Hundred + 1
        /\ Len(phi) = Hundred + 1
        /\ i = Hundred
        /\ phi[1] = FZero

\* C3: the phase series never decreases: phi[j+1] >= phi[j] for every j.
\* In every rk4 call of the loop the step is positive, rhs is >= 0 at the
\* previous phase, and so is each of the four stages
PhaseMonotone ==
    /\ \A j \in 1..(Len(phi) - 1) : FLe(phi[j], phi[j + 1])
    /\ frame.called =>
           /\ FLt(FZero, frame.h)
           /\ FLe(FZero, rhs(frame.y))
           /\ FLe(FZero, frame.k1) /\ FLe(FZero, frame.k2)
           /\ FLe(FZero, frame.k3) /\ FLe(FZero, frame.k4)

\* the loop has ended on a series that has grown
PhaseMonotoneWitness ==
    /\ pcO = "done"
    /\ Len(phi) > Hundred
    /\ FLt(phi[1], phi[2])
    /\ FLt(phi[Len(phi) - 1], phi[Len(phi)])

\* C4: the loop has no early exit.  Its test holds at every i < t.size - 1,
\* whatever the phases; every pass moves i up by one, towards t.size - 1, and
\* appends one phase; the loop ends only at i = t.size - 1, and has then made
\* exactly t.size - 1 passes
LoopRunsFullGrid ==
    /\ [](pcO = "loop" /\ i < tsize - 1 => RangeHasNext(i, tsize - 1))
    /\ [](pcO = "done" => i = tsize - 1 /\ Len(phi) = tsize)
    /\ [][/\ pcO' = "done" => i = tsize - 1
          /\ pcO' = "loop" => /\ i' = i + 1
                              /\ i' <= tsize - 1
                              /\ Len(phi') = Len(phi) + 1]_vars

\* the loop has ended although the orbit had closed before the last pass
LoopRunsFullGridWitness ==
    /\ pcO = "done"
    /\ i = tsize - 1
    /\ i >= Hundred
    /\ FLe(FMul(F(2), PI), phi[Len(phi) - 1])

\* C5: dt is T / 100, every rk4 call of the loop receives it, and no step
\* changes dt, L, ECC, MU or RL
StepSizeFixed ==
    /\ [](dt = FDiv(T, F(Hundred)) /\ (frame.called => frame.h = dt))
    /\ [][dt' = dt /\ L' = L /\ ECC' = ECC /\ MU' = MU /\ RL' = RL]_vars

\* the last pass of a run has called rk4 with dt
StepSizeFixedWitness ==
    /\ pcO = "done"
    /\ i >= Hundred
    /\ frame.called
    /\ frame.h = dt
    /\ frame.y = phi[Len(phi) - 1]

----------------------------------------------------------------------------
(* The catalogue reader's properties                                       *)

\* the tokens of a line and the 1-counted n-th of its tokens
Tokens(line) == Split(line)
HasToken(line, n) == n >= 1 /\ n <= Len(Tokens(line))
NthToken(line, n) == Tokens(line)[n]

\* the 1-counted numbers of the physical lines start, start + step, ... <= n
SelectedNumbers ==
    { n \in 1..Len(table) : n >= start /\ (n - start) % step = 0 }

\* C6: for start >= 1 and step >= 1 the lines read are exactly the physical
\* lines start, start + step, start + 2 step, ... <= n, in file order, and the
\* values returned are parsed from those lines and no other
SelectsStartStride ==
    pcR \in {"parse", "done"} /\ pending = "none" /\ outcome.exc # "URLError"
    /\ start >= 1 /\ step >= 1 =>
        /\ Len(lines) = Cardinality(SelectedNumbers)
        /\ \A k \in 1..Len(lines) :
               /\ start + (k - 1) * step \in SelectedNumbers
               /\ lines[k] = table[start + (k - 1) * step]
        /\ outcome.kind = "return" =>
               \A j \in 1..Len(columns) : \A k \in 1..Len(lines) :
                   columns[j] >= 1 =>
                       outcome.data[j][k] =
                           ParseFloat(NthToken(table[start + (k - 1) * step],
                                               columns[j])).val

\* the flux table's call: start = 4 and step = 5 return lines 4, 9 and 14
SelectsStartStrideWitness ==
    /\ pcR = "done"
    /\ outcome.kind = "return"
    /\ start = 4 /\ step = 5
    /\ columns = <<1>>
    /\ Len(table) >= 14
    /\ outcome.data = << <<F(4), F(9), F(14)>> >>

\* C7: a returned value of column c >= 1 is the float of the c-th token of
\* its line, counting from 1
ColumnsOneCounted ==
    outcome.kind = "return" =>
        \A j \in 1..Len(columns) : \A k \in 1..Len(lines) :
            columns[j] >= 1 =>
                /\ HasToken(lines[k], columns[j])
                /\ ParseFloat(NthToken(lines[k], columns[j])).ok
                /\ outcome.data[j][k] =
                       ParseFloat(NthToken(lines[k], columns[j])).val

\* column 2 was read from a line whose tokens differ
ColumnsOneCountedWitness ==
    /\ outcome.kind = "return"
    /\ columns = <<2>>
    /\ Len(lines) >= 1
    /\ Len(Tokens(lines[1])) >= 3
    /\ outcome.data[1][1] = ParseFloat(Tokens(lines[1])[2]).val
    /\ outcome.data[1][1] # ParseFloat(Tokens(lines[1])[1]).val
    /\ outcome.data[1][1] # ParseFloat(Tokens(lines[1])[3]).val

\* C8: on success there is one sequence per requested column, in the order
\* requested, each as long as the list of selected lines, and element k of
\* every sequence comes from the k-th selected line
ColumnsAligned ==
    outcome.kind = "return" =>
        /\ Len(outcome.data) = Len(columns)
        /\ \A j \in 1..Len(columns) :
               /\ Len(outcome.data[j]) = Len(lines)
               /\ \A k \in 1..Len(lines) :
                      LET toks == Tokens(lines[k])
                          c    == columns[j]
                          n    == IF c >= 1 THEN c ELSE Len(toks) + c
                      IN  /\ n \in 1..Len(toks)
                          /\ outcome.data[j][k] = ParseFloat(toks[n]).val

\* several columns, not in increasing order, of several lines
ColumnsAlignedWitness ==
    /\ outcome.kind = "return"
    /\ Len(columns) >= 2
    /\ columns[1] > columns[2]
    /\ Len(lines) >= 2
    /\ outcome.data[1] # outcome.data[2]

\* a selected line is malformed for a requested column
Malformed(line, c) ==
    \/ Len(Tokens(line)) < c
    \/ HasToken(line, c) /\ ~ParseFloat(NthToken(line, c)).ok

\* C9: if a selected line is malformed for a requested column (it has fewer
\* tokens than the column's number, or that token is not numeric), the call
\* raises and returns no data for any column
MalformedFailsWhole ==
    /\ pcR = "done"
    /\ \E j \in 1..Len(columns) : \E k \in 1..Len(lines) :
           columns[j] >= 1 /\ Malformed(lines[k], columns[j])
    => /\ outcome.kind = "raise"
       /\ outcome.exc \in {"IndexError", "ValueError"}
       /\ outcome.data = << >>

\* a call raised on a later line of a later column, the first column and the
\* lines before having parsed
MalformedFailsWholeWitness ==
    /\ pcR = "done"
    /\ outcome.kind = "raise"
    /\ outcome.exc = "ValueError"
    /\ Len(columns) = 2
    /\ Len(lines) >= 3
    /\ \A k \in 1..Len(lines) : ~Malformed(lines[k], columns[1])
    /\ ~Malformed(lines[1], columns[2])
    /\ \E k \in 2..Len(lines) : Malformed(lines[k], columns[2])

\* C10: a column number outside 1..(number of tokens of the line), 0 and
\* the negative numbers included, makes the call raise
OutOfRangeColumnRaises ==
    /\ pcR = "done"
    /\ pending = "none" /\ outcome.exc # "URLError"
    /\ \E j \in 1..Len(columns) : \E k \in 1..Len(lines) :
           columns[j] \notin 1..Len(Tokens(lines[k]))
    => outcome.kind = "raise"

\* C11: a call requests the URL at most once.  When urlopen or the read in
\* the with block raises, the call ends with that exception, without a second
\* request, with no line kept for parsing and no data; the parser is reached
\* only after a read that did not raise.
FetchAtMostOnce ==
    /\ opens <= 1
    /\ pcR \in {"readlines", "exit", "parse", "done"} => opens = 1
    /\ pcR = "parse" => pending = "none"
    /\ pcR = "done" /\ (pending # "none" \/ outcome.exc = "URLError") =>
           /\ outcome.kind = "raise"
           /\ outcome.exc = (IF pending # "none" THEN pending ELSE "URLError")
           /\ outcome.data = << >>
           /\ lines = << >>

FetchAtMostOnceWitness ==
    /\ pcR = "done"
    /\ outcome = Raised("OSError")
    /\ Len(table) = MaxLines
    /\ columns = <<1>>
    /\ start = 1 /\ step = 1
    /\ opens = 1

\* C12: in a run of the catalogue notebook at most one connection is open.
\* A connection is open exactly from a successful urlopen to the end of its
\* with block, whether the read raised or not: none is open while the lines
\* are parsed, when a fetch has ended, or when the next fetch starts.  A
\* connection is opened only by the step that enters a with block, and the
\* step that leaves the block closes it.
OneConnectionAtATime ==
    /\ [](conn \in {0, 1})
    /\ [](conn = 1 <=> pcR \in {"readlines", "exit", "fits_open", "fits_exit"})
    /\ [][/\ conn' > conn => /\ pcR \in {"urlopen", "fits_urlopen"}
                             /\ pcR' \in {"readlines", "fits_open"}
          /\ pcR \in {"exit", "fits_exit"} => conn' = 0]_vars

OneConnectionAtATimeWitness ==
    /\ cell = FetchCells
    /\ pcR = "parse"
    /\ conn = 0
    /\ opens = FetchCells
    /\ Len(lines) = MaxWide

----------------------------------------------------------------------------
(* The properties of bh-conda-env and of the staging script                *)

IsRun(entry)  == entry.kind = "run"
IsEcho(entry) == entry.kind = "echo"
Commands == SelectSeq(log, IsRun)
Output   == SelectSeq(log, IsEcho)

ValidActions == {"create", "check", "update"}
HelpFlags    == {"-h", "--help"}

\* C13: the actions are exactly create, check and update (and -h, --help).
\* For any other first argument, a missing one included, the command prints
\* 'Unrecognized action <argument>' and the list of the valid actions and
\* exits with status 1: it runs no command, does not start the staging
\* script, and takes no other step.  For a valid one it never does so.
OtherActionsRejected ==
    /\ argv1 \notin ValidActions \cup HelpFlags =>
           /\ pcS \in {"start", "exited"}
           /\ pcP = "idle"
           /\ Commands = << >>
           /\ pcS = "exited" =>
                  /\ exitStatus = 1
                  /\ log = << Printed(<<"Unrecognized action ", argv1>>),
                              Printed(<<"Argument must be one of 'create', 'check', or 'update'">>) >>
    /\ argv1 \in ValidActions \cup HelpFlags =>
           /\ pcS = "exited" => exitStatus = 0
           /\ \A k \in 1..Len(log) :
                  log[k] # Printed(<<"Unrecognized action ", argv1>>)

OtherActionsRejectedWitness ==
    /\ pcS = "exited"
    /\ argv1 = ""
    /\ exitStatus = 1
    /\ Len(log) = 2

\* the help text as INSTALL.md documents it
UsageText ==
    << <<"usage: bh-conda-env [-h] {create|check|update}">>,
       << >>,
       <<"Create or update the conda environment for">>,
       <<"Black Hole Astrophysics">>,
       << >>,
       <<"positional arguments:">>,
       <<"  action", "\t", "\t", "conda action to perform, must be one">>,
       <<"\t", "\t", "\t", "of 'create', 'check', or 'update'">>,
       << >>,
       <<"optional arguments:">>,
       <<"  -h, --help", "\t", "\t", "show this help message and exit">> >>

\* C14: with -h or --help the command prints the usage text and exits with
\* status 0; no step of the run activates an environment, runs a command,
\* starts the staging script, or changes a file or a variable.
HelpOnlyPrints ==
    /\ [](argv1 \in HelpFlags =>
             /\ pcS \in {"start", "exited"}
             /\ pcP = "idle"
             /\ CONDA_PREFIX = ""
             /\ Commands = << >>
             /\ pcS = "exited" =>
                    /\ exitStatus = 0
                    /\ log = PrintAll(UsageText))
    /\ [][(argv1 \in HelpFlags) =>
             (UNCHANGED <<fs, env, CONDA_PREFIX, envExists>>)]_vars

HelpOnlyPrintsWitness ==
    /\ argv1 = "--help"
    /\ pcS = "exited"
    /\ exitStatus = 0
    /\ Len(log) = Len(UsageText)
    /\ fs[EnvPrefix] = Staged(EnvPrefix)

\* the four variables, in the order the claim lists them, and the labels
\* they are printed with
FourVariables ==
    <<"GWPY_RCPARAMS", "GWPY_USETEX", "MATPLOTLIBRC", "XDG_DATA_HOME">>
Labels ==
    <<"GWPY_RCPARAMS: ", "GWPY_USETEX: ", "MATPLOTLIBRC: ", "XDG_DATA_HOME: ">>
CurrentValue(name) == IF env[name].set THEN env[name].val ELSE ""

\* C15: check first activates black-hole-3.7, then runs conda info --all,
\* then prints the current value of GWPY_RCPARAMS, GWPY_USETEX, MATPLOTLIBRC
\* and XDG_DATA_HOME, in this order, and only then ends (status 0).  The
\* values printed are those of the shell after the activation: no later step
\* of the run changes a variable.
CheckReportsInOrder ==
    /\ [](argv1 = "check" /\ pcS = "exited" =>
             /\ Len(log) = 12
             /\ IsRun(log[1])
             /\ log[1].text = <<"conda activate black-hole-3.7">>
             /\ log[1].ok <=> CONDA_PREFIX = EnvPrefix
             /\ log[2] = Printed(<<"conda info --all">>)
             /\ IsRun(log[3]) /\ log[3].text = <<"conda info --all">>
             /\ log[5] = Printed(<<"Checking environment variables:">>)
             /\ \A k \in 1..4 :
                    log[5 + k] =
                        Printed(<<Labels[k], CurrentValue(FourVariables[k])>>)
             /\ IsRun(log[10])
             /\ exitStatus = 0)
    /\ [][(argv1 = "check" /\ pcS \in {"info", "report", "matplotlib"}) =>
              (env' = env /\ Len(log') > Len(log)
               /\ SubSeq(log', 1, Len(log)) = log)]_vars

CheckReportsInOrderWitness ==
    /\ argv1 = "check"
    /\ pcS = "exited"
    /\ CONDA_PREFIX = EnvPrefix
    /\ log[8] = Printed(<<"MATPLOTLIBRC: ", "envs/black-hole-3.7/etc/data">>)
    /\ log[6] = Printed(<<"GWPY_RCPARAMS: ", "false">>)

Exported(text) ==
    { text[k][2] :
        k \in { j \in 1..Len(text) :
                   Len(text[j]) >= 2 /\ text[j][1] = "export" } }
Unsets(text) ==
    { text[k][2] :
        k \in { j \in 1..Len(text) :
                   Len(text[j]) >= 2 /\ text[j][1] = "unset" } }
FourSet == { FourVariables[k] : k \in 1..4 }
AllSet == [n \in FourSet |-> Value("x")]

\* C16: the staging script writes both fragments; the activation fragment
\* exports exactly the four variables, the deactivation fragment unsets
\* exactly the same four, and sourcing the first and then the second leaves
\* none of the four set, whatever was set before.
FragmentsMirror ==
    /\ pcP \in {"copyfile", "copytree"} =>
           /\ fs[SysPrefix].activate_sh.exists
           /\ fs[SysPrefix].deactivate_sh.exists
    /\ \A p \in Prefixes :
           LET act   == fs[p].activate_sh
               deact == fs[p].deactivate_sh
           IN  /\ act.exists => Exported(act.text) = FourSet
               /\ deact.exists => Unsets(deact.text) = FourSet
               /\ act.exists /\ deact.exists =>
                      /\ Exported(act.text) = Unsets(deact.text)
                      /\ \A e \in {env, NoneSet, AllSet} :
                             /\ \A n \in FourSet : Source(act.text, e)[n].set
                             /\ \A n \in FourSet :
                                    ~Source(deact.text,
                                            Source(act.text, e))[n].set

FragmentsMirrorWitness ==
    /\ argv1 = "create"
    /\ pcP = "copyfile"
    /\ SysPrefix = EnvPrefix
    /\ env["MATPLOTLIBRC"].set
    /\ fs[EnvPrefix].deactivate_sh = File(DEACTIVATE)
    /\ ~fs[EnvPrefix].fonts

\* the commands of the create/update branch, by the first word of their
\* entry in the log, in the order the claim gives
ClaimedOrder ==
    <<"conda env ", "conda activate black-hole-3.7", "bh-set-variables",
      "source ", "python -c fm._rebuild()">>

\* C20: in create and update the commands run are, in this order, conda env
\* <action>, the activation of black-hole-3.7, the staging script, the
\* sourcing of activate.d/env_vars.sh and the font-cache rebuild, each once
\* and none skipped, whatever their outcomes.  The staging script runs only
\* between the activation and the sourcing, and has ended when the fragment
\* is sourced.  A fragment that exists, in this run or before it, is one the
\* staging script has written.
CreateUpdateInOrder ==
    argv1 \in {"create", "update"} =>
        /\ \A p \in Prefixes :
               fs[p].activate_sh.exists =>
                   fs[p].activate_sh = File(Format(ACTIVATE, DataPath(p)))
        /\ Len(Commands) <= Len(ClaimedOrder)
        /\ \A k \in 1..Len(Commands) : Commands[k].text[1] = ClaimedOrder[k]
        /\ Len(Commands) >= 1 => Commands[1].text[2] = argv1
        /\ pcP # "idle" => pcS = "stage" /\ Len(Commands) = 2
        /\ pcS = "source" => pcP = "idle" /\ Len(Commands) = 3
        /\ pcS = "exited" => Len(Commands) = Len(ClaimedOrder)

CreateUpdateInOrderWitness ==
    /\ argv1 = "create"
    /\ pcS = "exited"
    /\ \A k \in 1..Len(Commands) : Commands[k].ok
    /\ fs[EnvPrefix] = Staged(EnvPrefix)
    /\ env["XDG_DATA_HOME"] = Value(DataPath(EnvPrefix))

----------------------------------------------------------------------------
(* classical-orbits.ipynb: the conservation checks                         *)

\* the notebook's own parameters: ECC = 0.21, M2 = 3.285e23, L = 9e38
Mercury ==
    /\ ECC = Lit(880804, -22)
    /\ M2 = Lit(569857, 59)
    /\ L = Lit(693335, 110)

\* the indices of a series other than the first and the last
Interior(f) == 2..(Len(f) - 1)

\* C17: for the Mercury parameters, the relative error of the energy and
\* the relative error of the angular momentum are below 1% at every sample
\* other than the first and the last.
ConservedWithinTolerance ==
    /\ (Mercury /\ pcO \in {"energy", "end"}) =>
           \A k \in Interior(error) : FLt(error[k], Tolerance)
    /\ (Mercury /\ pcO = "end") =>
           \A k \in Interior(Lerror) : FLt(Lerror[k], Tolerance)

ConservedWithinToleranceWitness ==
    /\ Mercury
    /\ pcO = "end"
    /\ Len(error) = tsize /\ Len(Lerror) = tsize
    /\ \E k \in Interior(error) : error[k].m # 0
    /\ \E k \in Interior(Lerror) : Lerror[k].m # 0

MercuryPeriod == Lit(950000, 3)      \* 7.6e6 seconds, 88 days
FewPercent    == Lit(838861, -24)    \* 0.05

\* C18: for the Mercury parameters, the period T differs from Mercury's
\* orbital period, 7.6e6 seconds, by less than five percent of it.
PeriodMatchesMercury ==
    Mercury =>
        FLt(FAbs(FSub(T, MercuryPeriod)), FMul(FewPercent, MercuryPeriod))

PeriodMatchesMercuryWitness ==
    /\ Mercury
    /\ T = Period(SemiMajorAxis(RL, ECC), M)
    /\ FLt(MercuryPeriod, T)
    /\ pcO = "end"

\* C19: the conservation checks never raise, whatever the errors they
\* find, and they leave the phase and radius series as they were; the run
\* goes on to the next cell and to the end.
DiagnosticsAreNoGate ==
    /\ [](pcO # "raised")
    /\ [][(pcO \in {"radial", "energy"}) =>
            (/\ phi' = phi
             /\ r' = r
             /\ pcO' = IF pcO = "radial" THEN "energy" ELSE "end")]_vars

DiagnosticsAreNoGateWitness ==
    /\ pcO = "end"
    /\ \E k \in Interior(error) : ~FLt(error[k], Tolerance)
    /\ \E k \in Interior(Lerror) : ~FLt(Lerror[k], Tolerance)

----------------------------------------------------------------------------
(* conda/bh-set-variables and conda/bh-conda-env: staging again              *)

\* C21: the staging script run on a prefix that is staged already (as
\* bh-conda-env update does after an earlier create) completes without
\* error: at its last step, the copy of the fonts tree, with the fonts tree of
\* the earlier run in the data directory, the script ends with success and
\* the prefix holds the files it held after the first run.
RestagingCompletes ==
    [][(pcP = "copytree" /\ fs[SysPrefix].fonts) =>
          (/\ log' = Append(log, Ran(<<"bh-set-variables">>, TRUE))
           /\ fs'[SysPrefix] = Staged(SysPrefix))]_vars

\* C22: create and update end with exit status 0 whatever the outcomes of
\* conda env, of the activation, of the staging script, of the sourcing and
\* of the font-cache rebuild: no step that fails ends the script or keeps a
\* later step from running, and the status is set by the final exit 0 alone.
AlwaysExitsZero ==
    argv1 \in {"create", "update"} =>
        /\ pcS # "exited" => exitStatus = -1
        /\ pcS = "exited" =>
               /\ exitStatus = 0
               /\ Len(Commands) = Len(ClaimedOrder)
               /\ \A k \in 1..Len(Commands) :
                      Commands[k].text[1] = ClaimedOrder[k]

AlwaysExitsZeroWitness ==
    /\ argv1 \in {"create", "update"}
    /\ pcS = "exited"
    /\ exitStatus = 0
    /\ Len(Commands) = Len(ClaimedOrder)
    /\ \A k \in 1..Len(Commands) : ~Commands[k].ok

\* the steps of the staging script, in the order the claim gives them
StagingOrder ==
    <<"makedirs", "write_activate", "write_deactivate", "copyfile", "copytree">>
StagePos(st) == CHOOSE k \in 1..Len(StagingOrder) : StagingOrder[k] = st
Reached(st) == pcP # "idle" /\ StagePos(pcP) > StagePos(st)

\* C23: the staging script makes the three directories, then writes the
\* activation fragment, then the deactivation fragment, then copies
\* matplotlibrc, then the fonts tree: each step follows the one before it or
\* ends the script, and has the effects of the steps before it in place.  A
\* step that puts matplotlibrc or fonts into the data directory is taken
\* when the run has written both fragments.
StagingInOrder ==
    /\ [](Reached("makedirs") =>
             /\ fs[SysPrefix].activate_d
             /\ fs[SysPrefix].deactivate_d
             /\ fs[SysPrefix].data)
    /\ [](Reached("write_activate") =>
             fs[SysPrefix].activate_sh
                 = File(Format(ACTIVATE, DataPath(SysPrefix))))
    /\ [](Reached("write_deactivate") =>
             fs[SysPrefix].deactivate_sh = File(DEACTIVATE))
    /\ [](Reached("copyfile") => fs[SysPrefix].matplotlibrc)
    /\ [][(pcP # "idle" /\ pcP' # pcP) =>
             (\/ pcP' = "idle"
              \/ StagePos(pcP') = StagePos(pcP) + 1)]_vars
    /\ [][\A p \in Prefixes :
             (\/ fs'[p].matplotlibrc /\ ~fs[p].matplotlibrc
              \/ fs'[p].fonts /\ ~fs[p].fonts) =>
                 (/\ p = SysPrefix
                  /\ Reached("write_deactivate")
                  /\ fs[p].activate_sh.exists
                  /\ fs[p].deactivate_sh.exists
                  /\ fs'[p].activate_sh = fs[p].activate_sh
                  /\ fs'[p].deactivate_sh = fs[p].deactivate_sh)]_vars

\* the fonts tree has just been copied into a prefix that held nothing
StagingInOrderWitness ==
    /\ pcP = "idle"
    /\ pcS = After("stage")
    /\ Len(Commands) > 0
    /\ Commands[Len(Commands)] = Ran(<<"bh-set-variables">>, TRUE)
    /\ fs[SysPrefix] = Staged(SysPrefix)

\* the value a variable has after the activation fragment of a prefix is
\* sourced in a shell with the variables e
ValueExported(p, name, e) == Source(fs[p].activate_sh.text, e)[name]

\* C24: the activation fragment of a prefix exports MATPLOTLIBRC and
\* XDG_DATA_HOME as one and the same directory, <prefix>/etc/data, and
\* GWPY_RCPARAMS and GWPY_USETEX as "false"; and the data directory a run of
\* the staging script copies matplotlibrc and the fonts tree into is the
\* directory that the fragment this run has written exports.
ExportsDataDirectory ==
    /\ [](\A p \in Prefixes : \A e \in {NoneSet, AllSet} :
             fs[p].activate_sh.exists =>
                 /\ ValueExported(p, "GWPY_RCPARAMS", e) = Value("false")
                 /\ ValueExported(p, "GWPY_USETEX", e) = Value("false")
                 /\ ValueExported(p, "MATPLOTLIBRC", e) = Value(DataPath(p))
                 /\ ValueExported(p, "XDG_DATA_HOME", e) = Value(DataPath(p)))
    /\ [][\A p \in Prefixes :
             (\/ fs'[p].matplotlibrc /\ ~fs[p].matplotlibrc
              \/ fs'[p].fonts /\ ~fs[p].fonts) =>
                 (/\ ValueExported(SysPrefix, "MATPLOTLIBRC", NoneSet)
                        = Value(DataPath(p))
                  /\ ValueExported(SysPrefix, "XDG_DATA_HOME", NoneSet)
                        = Value(DataPath(p)))]_vars

\* create or update has staged the environment and sourced its fragment
ExportsDataDirectoryWitness ==
    /\ pcS = After("source")
    /\ CONDA_PREFIX = EnvPrefix
    /\ fs[EnvPrefix].matplotlibrc /\ fs[EnvPrefix].fonts
    /\ Commands[3] = Ran(<<"bh-set-variables">>, TRUE)
    /\ env["MATPLOTLIBRC"] = Value(DataPath(EnvPrefix))
    /\ env["XDG_DATA_HOME"] = env["MATPLOTLIBRC"]
    /\ env["GWPY_RCPARAMS"] = Value("false")
    /\ env["GWPY_USETEX"] = Value("false")

----------------------------------------------------------------------------
(* classical-orbits.ipynb: the loop invariant                              *)

\* C25: in the loop, after i passes the phase list has i + 1 elements and
\* the last of them is rk4 of the one before it; no step changes or removes
\* an element the list already has, so that at the end of the loop every
\* phi[j+1] is rk4(phi[j], dt); the list then has t.size elements, and so
\* has r and every series derived from them.
LoopInvariant ==
    /\ [](pcO = "loop" =>
             /\ Len(phi) = i + 1
             /\ i >= 1 => phi[i + 1] = rk4(phi[i], dt).ret)
    /\ [](pcO = "done" =>
             \A j \in 1..(Len(phi) - 1) : phi[j + 1] = rk4(phi[j], dt).ret)
    /\ [](pcO \in {"done", "radial", "energy", "end"} => Len(phi) = tsize)
    /\ [](pcO \in {"radial", "energy", "end"} => Len(r) = tsize)
    /\ [](pcO \in {"energy", "end"} =>
             /\ Len(rdot) = tsize
             /\ Len(energy) = tsize
             /\ Len(error) = tsize)
    /\ [](pcO = "end" =>
             /\ Len(phidot) = tsize
             /\ Len(angmomentum) = tsize
             /\ Len(Lerror) = tsize)
    /\ [][/\ Len(phi') >= Len(phi)
          /\ \A j \in 1..Len(phi) : phi'[j] = phi[j]]_vars

\* a run on a grid of more than 101 samples has ended
LoopInvariantWitness ==
    /\ pcO = "end"
    /\ tsize > Hundred + 1
    /\ Len(phi) = tsize
    /\ Len(r) = tsize
    /\ Len(Lerror) = tsize
    /\ phi[tsize] = rk4(phi[tsize - 1], dt).ret

----------------------------------------------------------------------------
(* gamma-ray-bursts.ipynb: a start past the end of the table                *)

\* one empty sequence for each of the columns asked for
EmptyColumns == [j \in 1..Len(columns) |-> << >>]

\* C26: when the table has been fetched, step >= 1 and start is greater
\* than the number of lines of the table, the call raises nothing and returns
\* one empty sequence per requested column, whatever the columns are.
StartPastEndReturnsEmpty ==
    (/\ pcR = "done"
     /\ pending = "none"
     /\ outcome.exc # "URLError"
     /\ step >= 1
     /\ start > Len(table))
    => /\ lines = << >>
       /\ outcome = Returned(EmptyColumns)

\* three columns were asked of a table shorter than start
StartPastEndReturnsEmptyWitness ==
    /\ pcR = "done"
    /\ Len(table) >= 1
    /\ start > Len(table)
    /\ step >= 1
    /\ Len(columns) = 3
    /\ outcome.kind = "return"
    /\ Len(outcome.data) = 3
    /\ \A j \in 1..3 : outcome.data[j] = << >>

----------------------------------------------------------------------------
(* conda/bh-conda-env: what check leaves alone                              *)

\* the commands of the create/update branch that change the installation
\* or read the fragment
Installing == {"conda env ", "bh-set-variables", "source "}

\* C27, as stated: in a run of check no conda env command and no staging
\* script is run, no file of any prefix is written, env_vars.sh is not
\* sourced (no step gives the shell's variables the values of a fragment),
\* and the run ends with status 0.
CheckNeverSources ==
    /\ [](argv1 = "check" =>
             /\ pcP = "idle"
             /\ \A k \in 1..Len(Commands) : Commands[k].text[1] \notin Installing
             /\ pcS = "exited" => exitStatus = 0)
    /\ [][(argv1 = "check") =>
             (/\ fs' = fs
              /\ envExists' = envExists
              /\ env' = env)]_vars

\* C27, amended: in a run of check no conda env command and no staging
\* script is run, the branch has no source command of its own, no file of
\* any prefix is written, and the run ends with status 0; the one step that
\* changes the shell's variables is the activation of black-hole-3.7, by
\* which conda sources the environment's activate.d/env_vars.sh.
CheckLeavesInstallation ==
    /\ [](argv1 = "check" =>
             /\ pcP = "idle"
             /\ \A k \in 1..Len(Commands) : Commands[k].text[1] \notin Installing
             /\ pcS = "exited" => exitStatus = 0)
    /\ [][(argv1 = "check") =>
             (/\ fs' = fs
              /\ envExists' = envExists
              /\ env' # env =>
                     /\ pcS = "start"
                     /\ CONDA_PREFIX' = EnvPrefix
                     /\ fs[EnvPrefix].activate_sh.exists
                     /\ env' = Source(fs[EnvPrefix].activate_sh.text, env))]_vars

\* a check of a staged environment has ended, the four variables set by
\* the activation
CheckLeavesInstallationWitness ==
    /\ argv1 = "check"
    /\ pcS = "exited"
    /\ exitStatus = 0
    /\ fs[EnvPrefix] = Staged(EnvPrefix)
    /\ CONDA_PREFIX = EnvPrefix
    /\ env = Source(Format(ACTIVATE, DataPath(EnvPrefix)), NoneSet)

=============================================================================
